---- MODULE Spec2Model ----
(***************************************************************************)
(* AI Prompt Builder (Electron): the streaming generation client           *)
(* (lib/zai generateStream, the older lib/ollama generateStream), the     *)
(* request lifecycle of App.tsx (handleGenerate / handleStop), the         *)
(* connectivity probe (checkApiKey / checkConnection) and the ipcMain      *)
(* handlers of the main process (settings, external:open, analytics).      *)
(*                                                                         *)
(* Text is a sequence of characters, a character is a one-character        *)
(* string; a byte on the wire is the ASCII character itself or, for a      *)
(* byte of a multi-byte UTF-8 sequence, its hex name ("xC3").  The two     *)
(* non-ASCII characters of the model are "U+E9" and "U+F6".                *)
(***************************************************************************)
EXTENDS Integers, Sequences, FiniteSets, TLC

\* ------------------------------------------------------------------ bounds
MaxLines == 2        \* lines of a response body in the stream specification
MaxSessions == 2     \* calls of handleGenerate that reach generateStream
MaxCoalesce == 2     \* lines of a body the application gets in one chunk
Epoch == 1000        \* Date.now() when the application starts
TickMs == 50         \* the step of the clock
MaxTicks == 1        \* steps of the clock
MaxProbes == 3       \* calls of checkConnection that reach fetch
MaxJoint == 1        \* requests followed together with the probes

\* ------------------------------------------------------------ characters
WS == {" ", "\t", "\r", "\n"}
Lead2 == {"xC3"}
Cont == {"xA9", "xB6"}
NonAscii == {"U+E9", "U+F6"}
REPLACEMENT == "U+FFFD"
Digits == {"0", "1", "2", "3", "4", "5", "6", "7", "8", "9"}

\* The server's side of the wire: UTF-8 encoding, one or two bytes a character.
Utf8Encode(chars) ==
    LET two == [k \in 1..(2 * Len(chars)) |->
                   LET c == chars[(k + 1) \div 2] IN
                   IF k % 2 = 1
                   THEN (IF c \in NonAscii THEN "xC3" ELSE c)
                   ELSE (IF c = "U+E9" THEN "xA9" ELSE IF c = "U+F6" THEN "xB6" ELSE "")]
    IN SelectSeq(two, LAMBDA x : x # "")

Char2(lead, cont) == IF cont = "xA9" THEN "U+E9" ELSE "U+F6"

\* The character the i-th of the bytes b gives: none ("") inside a sequence
\* or for a lead byte that ends the input, U+FFFD for an ill-formed sequence.
DecodedAt(b, i) ==
    IF b[i] \in Lead2
    THEN (IF i = Len(b) THEN ""
          ELSE IF b[i + 1] \in Cont THEN Char2(b[i], b[i + 1])
          ELSE REPLACEMENT)
    ELSE IF b[i] \in Cont
         THEN (IF i > 1 /\ b[i - 1] \in Lead2 THEN "" ELSE REPLACEMENT)
         ELSE b[i]

DecodeBytes(b) ==
    [text |-> SelectSeq([i \in 1..Len(b) |-> DecodedAt(b, i)], LAMBDA x : x # ""),
     pend |-> IF b # <<>> /\ b[Len(b)] \in Lead2 THEN <<b[Len(b)]>> ELSE <<>>]

\* new TextDecoder().decode(value, { stream: true }): pend is the decoder's
\* state, the bytes of a sequence not yet complete (the decoder is not fatal).
Utf8Decode(pend, bytes) == DecodeBytes(pend \o bytes)

\* A decoder that keeps no state between calls: decode(value) per chunk.
DecodeIsolated(pend, bytes) ==
    LET r == Utf8Decode(<<>>, bytes) IN
    [text |-> IF r.pend = <<>> THEN r.text ELSE Append(r.text, REPLACEMENT),
     pend |-> <<>>]

\* decoder.decode(value, { stream: true })
DecodeStream(pend, bytes) == Utf8Decode(pend, bytes)

\* ---------------------------------------------------------------- strings
\* the place of the k-th of the line feeds nl of a text of n characters
\* (0 for k = 0, n + 1 past the last)
LineFeedAt(nl, n, k) ==
    IF k = 0 THEN 0
    ELSE IF k > Cardinality(nl) THEN n + 1
    ELSE CHOOSE i \in nl : Cardinality({j \in nl : j <= i}) = k

SplitAt(s, nl) ==
    [k \in 1..(Cardinality(nl) + 1) |->
        SubSeq(s, LineFeedAt(nl, Len(s), k - 1) + 1, LineFeedAt(nl, Len(s), k) - 1)]

\* String.prototype.split('\n'): the segments between line feeds, at least one.
Split(s) == SplitAt(s, {i \in 1..Len(s) : s[i] = "\n"})

\* the first place from i on, and the last place up to i, that holds no
\* white space (Len(s) + 1 and 0 when there is none)
RECURSIVE FirstKept(_, _)
FirstKept(s, i) == IF i > Len(s) \/ s[i] \notin WS THEN i ELSE FirstKept(s, i + 1)
RECURSIVE LastKept(_, _)
LastKept(s, i) == IF i < 1 \/ s[i] \notin WS THEN i ELSE LastKept(s, i - 1)

\* String.prototype.trim()
Trim(s) == SubSeq(s, FirstKept(s, 1), LastKept(s, Len(s)))

\* String.prototype.startsWith(p)
StartsWith(s, p) == Len(s) >= Len(p) /\ SubSeq(s, 1, Len(p)) = p

\* String.prototype.slice(n), n >= 0
Slice(s, n) == SubSeq(s, n + 1, Len(s))

\* ------------------------------------------------------------ JSON values
JVal(t, s, keys, kids) == [t |-> t, s |-> s, keys |-> keys, kids |-> kids]
JUndefined == JVal("undefined", <<>>, <<>>, <<>>)
JNull == JVal("null", <<>>, <<>>, <<>>)
JTrue == JVal("true", <<>>, <<>>, <<>>)
JFalse == JVal("false", <<>>, <<>>, <<>>)
JStr(s) == JVal("str", s, <<>>, <<>>)
JNum(s) == JVal("num", s, <<>>, <<>>)
JArr(kids) == JVal("arr", <<>>, <<>>, kids)
JObj(keys, kids) == JVal("obj", <<>>, keys, kids)

ParseFail == [ok |-> FALSE, v |-> JUndefined, i |-> 0]
ParseOk(v, i) == [ok |-> TRUE, v |-> v, i |-> i]

RECURSIVE SkipWs(_, _)
SkipWs(s, i) == IF i <= Len(s) /\ s[i] \in WS THEN SkipWs(s, i + 1) ELSE i

MatchAt(s, i, lit) ==
    i + Len(lit) - 1 <= Len(s) /\ SubSeq(s, i, i + Len(lit) - 1) = lit

\* i is the place after the opening quote
RECURSIVE ParseString(_, _, _)
ParseString(s, i, acc) ==
    IF i > Len(s) THEN ParseFail
    ELSE IF s[i] = "\"" THEN ParseOk(JStr(acc), i + 1)
    ELSE IF s[i] = "\\"
         THEN IF i + 1 <= Len(s) /\ s[i + 1] \in {"\"", "\\", "/"}
              THEN ParseString(s, i + 2, Append(acc, s[i + 1]))
              ELSE IF i + 1 <= Len(s) /\ s[i + 1] = "n"
                   THEN ParseString(s, i + 2, Append(acc, "\n"))
                   ELSE ParseFail
    ELSE IF s[i] \in {"\n", "\t", "\r"} THEN ParseFail
    ELSE ParseString(s, i + 1, Append(acc, s[i]))

\* integers only: the frames of the model carry no fractions or exponents
RECURSIVE ParseDigits(_, _, _)
ParseDigits(s, i, acc) ==
    IF i <= Len(s) /\ s[i] \in Digits THEN ParseDigits(s, i + 1, Append(acc, s[i]))
    ELSE IF acc = <<>> \/ (Len(acc) > 1 /\ acc[1] = "0") THEN ParseFail
    ELSE ParseOk(JNum(acc), i)

RECURSIVE ParseValue(_, _)
RECURSIVE ParseMembers(_, _, _, _)
RECURSIVE ParseElems(_, _, _)

\* after a member's value v: a comma and the next member, or the closing brace
AfterMember(s, keys, kids, e) ==
    IF e > Len(s) THEN ParseFail
    ELSE IF s[e] = "," THEN ParseMembers(s, SkipWs(s, e + 1), keys, kids)
    ELSE IF s[e] = "}" THEN ParseOk(JObj(keys, kids), e + 1)
    ELSE ParseFail

MemberValue(s, keys, kids, key, v) ==
    IF ~v.ok THEN ParseFail
    ELSE AfterMember(s, Append(keys, key), Append(kids, v.v), SkipWs(s, v.i))

AfterKey(s, keys, kids, k, c) ==
    IF c > Len(s) \/ s[c] # ":" THEN ParseFail
    ELSE MemberValue(s, keys, kids, k.v.s, ParseValue(s, c + 1))

MemberKey(s, keys, kids, k) ==
    IF ~k.ok THEN ParseFail ELSE AfterKey(s, keys, kids, k, SkipWs(s, k.i))

\* i is the place of a member's key
ParseMembers(s, i, keys, kids) ==
    IF i > Len(s) \/ s[i] # "\"" THEN ParseFail
    ELSE MemberKey(s, keys, kids, ParseString(s, i + 1, <<>>))

\* after an element: a comma and the next element, or the closing bracket
AfterElem(s, kids, e) ==
    IF e > Len(s) THEN ParseFail
    ELSE IF s[e] = "," THEN ParseElems(s, e + 1, kids)
    ELSE IF s[e] = "]" THEN ParseOk(JArr(kids), e + 1)
    ELSE ParseFail

ElemValue(s, kids, v) ==
    IF ~v.ok THEN ParseFail ELSE AfterElem(s, Append(kids, v.v), SkipWs(s, v.i))

ParseElems(s, i, kids) == ElemValue(s, kids, ParseValue(s, i))

ValueAt(s, i) ==
    IF i > Len(s) THEN ParseFail
    ELSE IF s[i] = "{" THEN ParseMembers(s, SkipWs(s, i + 1), <<>>, <<>>)
    ELSE IF s[i] = "[" THEN ParseElems(s, i + 1, <<>>)
    ELSE IF s[i] = "\"" THEN ParseString(s, i + 1, <<>>)
    ELSE IF MatchAt(s, i, <<"t", "r", "u", "e">>) THEN ParseOk(JTrue, i + 4)
    ELSE IF MatchAt(s, i, <<"f", "a", "l", "s", "e">>) THEN ParseOk(JFalse, i + 5)
    ELSE IF MatchAt(s, i, <<"n", "u", "l", "l">>) THEN ParseOk(JNull, i + 4)
    ELSE IF s[i] \in Digits THEN ParseDigits(s, i, <<>>)
    ELSE ParseFail

EmptyAt(s, i, j) ==
    /\ i <= Len(s) /\ j <= Len(s)
    /\ \/ s[i] = "{" /\ s[j] = "}"
       \/ s[i] = "[" /\ s[j] = "]"

\* a JSON value from place i0 on; {} and [] have no members
ParseValueAt(s, i, j) ==
    IF EmptyAt(s, i, j)
    THEN ParseOk(IF s[i] = "{" THEN JObj(<<>>, <<>>) ELSE JArr(<<>>), j + 1)
    ELSE ValueAt(s, i)

ParseValue(s, i0) == ParseValueAt(s, SkipWs(s, i0), SkipWs(s, SkipWs(s, i0) + 1))

ParsedWhole(s, r) ==
    IF r.ok /\ SkipWs(s, r.i) > Len(s) THEN [ok |-> TRUE, v |-> r.v]
    ELSE [ok |-> FALSE, v |-> JUndefined]

\* JSON.parse(text): ok = FALSE stands for the SyntaxError it throws
JSONParse(s) == ParsedWhole(s, ParseValue(s, 1))

Nullish(v) == v.t \in {"null", "undefined"}

\* v.key of a value that is not null or undefined (the last duplicate key wins)
GetProp(v, key) ==
    IF v.t = "obj" /\ \E i \in 1..Len(v.keys) : v.keys[i] = key
    THEN LET i == CHOOSE j \in 1..Len(v.keys) :
                      /\ v.keys[j] = key
                      /\ \A k \in (j + 1)..Len(v.keys) : v.keys[k] # key
         IN v.kids[i]
    ELSE JUndefined

\* v[0] of a value that is not null or undefined
Index0(v) ==
    IF v.t = "arr" THEN (IF v.kids = <<>> THEN JUndefined ELSE v.kids[1])
    ELSE IF v.t = "str" THEN (IF v.s = <<>> THEN JUndefined ELSE JStr(<<v.s[1]>>))
    ELSE GetProp(v, <<"0">>)

\* v?.key and v?.[0]
OptProp(v, key) == IF Nullish(v) THEN JUndefined ELSE GetProp(v, key)
OptIndex0(v) == IF Nullish(v) THEN JUndefined ELSE Index0(v)

\* if (v)
Truthy(v) ==
    \/ v.t \in {"true", "obj", "arr"}
    \/ v.t = "str" /\ v.s # <<>>
    \/ v.t = "num" /\ v.s # <<"0">>

\* the text a value adds to a string with +=
RECURSIVE JsToString(_)
RECURSIVE JoinValues(_)
JsToString(v) ==
    IF v.t = "str" \/ v.t = "num" THEN v.s
    ELSE IF v.t = "true" THEN <<"t", "r", "u", "e">>
    ELSE IF v.t = "arr" THEN JoinValues(v.kids)
    ELSE <<"[", "o", "b", "j", "e", "c", "t", " ", "O", "b", "j", "e", "c", "t", "]">>
JoinValues(kids) ==
    IF kids = <<>> THEN <<>>
    ELSE IF Len(kids) = 1
         THEN (IF Nullish(kids[1]) THEN <<>> ELSE JsToString(kids[1]))
         ELSE (IF Nullish(kids[1]) THEN <<>> ELSE JsToString(kids[1]))
              \o <<",">> \o JoinValues(Tail(kids))

\* ------------------------------------------------- generateStream: one line
\* What one line of the for-loop does: the texts it yields (none or one) and
\* whether an exception leaves the loop.
LineResult(out, thrown) == [out |-> out, thrown |-> thrown]

DataPrefix == <<"d", "a", "t", "a", ":", " ">>
DoneLine == <<"d", "a", "t", "a", ":", " ", "[", "D", "O", "N", "E", "]">>
KeyChoices == <<"c", "h", "o", "i", "c", "e", "s">>
KeyDelta == <<"d", "e", "l", "t", "a">>
KeyContent == <<"c", "o", "n", "t", "e", "n", "t">>
KeyResponse == <<"r", "e", "s", "p", "o", "n", "s", "e">>

\* a try block with no catch: the exception propagates
Rethrow(r) == r

\* catch { /* Skip malformed lines */ }
SkipMalformed(r) == LineResult(r.out, FALSE)

\* the text yielded without looking at it
ZaiYieldUnchecked(p) ==
    IF ~p.ok \/ Nullish(p.v) THEN LineResult(<<>>, TRUE)
    ELSE LineResult(<<JsToString(OptProp(OptProp(OptIndex0(GetProp(p.v, KeyChoices)),
                                                 KeyDelta), KeyContent))>>, FALSE)

\* const content = json.choices?.[0]?.delta?.content; if (content) yield content
\* (json.choices of null throws a TypeError)
ZaiYield(p) ==
    IF ~p.ok \/ Nullish(p.v) THEN LineResult(<<>>, TRUE)
    ELSE IF Truthy(OptProp(OptProp(OptIndex0(GetProp(p.v, KeyChoices)), KeyDelta), KeyContent))
         THEN LineResult(<<JsToString(OptProp(OptProp(OptIndex0(GetProp(p.v, KeyChoices)),
                                                      KeyDelta), KeyContent))>>, FALSE)
         ELSE LineResult(<<>>, FALSE)

\* Z.AI: the body of the try block
ZaiTry(trimmed) == ZaiYield(JSONParse(Slice(trimmed, 6)))

ZaiTrimmed(trimmed) ==
    IF trimmed = <<>> \/ trimmed = DoneLine THEN LineResult(<<>>, FALSE)
    ELSE IF ~StartsWith(trimmed, DataPrefix) THEN LineResult(<<>>, FALSE)
    ELSE SkipMalformed(ZaiTry(trimmed))

\* Z.AI: the body of for (const line of lines)
ZaiLine(line) == ZaiTrimmed(Trim(line))

\* if (json.response) yield json.response
OllamaYield(p) ==
    IF ~p.ok \/ Nullish(p.v) THEN LineResult(<<>>, TRUE)
    ELSE IF Truthy(GetProp(p.v, KeyResponse))
         THEN LineResult(<<JsToString(GetProp(p.v, KeyResponse))>>, FALSE)
         ELSE LineResult(<<>>, FALSE)

\* Ollama: the body of the try block
OllamaTry(line) == OllamaYield(JSONParse(line))

\* Ollama: the body of for (const line of lines)
OllamaLine(line) ==
    IF Trim(line) # <<>> THEN SkipMalformed(OllamaTry(line))
    ELSE LineResult(<<>>, FALSE)

Families == {"zai", "ollama"}

ProcessLine(fam, line) == IF fam = "zai" THEN ZaiLine(line) ELSE OllamaLine(line)

RECURSIVE ForLines(_, _, _)
LineDone(fam, rest, out, r) ==
    IF r.thrown THEN LineResult(out \o r.out, TRUE)
    ELSE ForLines(fam, rest, out \o r.out)

\* for (const line of lines) { ... }: an exception ends the loop
ForLines(fam, lines, out) ==
    IF lines = <<>> THEN LineResult(out, FALSE)
    ELSE LineDone(fam, Tail(lines), out, ProcessLine(fam, Head(lines)))

\* lines.pop() || ''
PopTail(lines) == lines[Len(lines)]

\* for (const line of lines) over the complete lines; the tail stays in buffer
Walked(pend, tail, r) == [dec |-> pend, buffer |-> tail, out |-> r.out, thrown |-> r.thrown]

WalkLines(fam, pend, lines) ==
    Walked(pend, PopTail(lines), ForLines(fam, SubSeq(lines, 1, Len(lines) - 1), <<>>))

\* buffer += decoder.decode(...); const lines = buffer.split('\n')
AfterDecode(fam, buf, d) == WalkLines(fam, d.pend, Split(buf \o d.text))

\* One turn of the while loop after reader.read() gave a chunk:
\* decode, split, keep the tail, walk the complete lines.
ReadLoopBody(fam, dec, buf, value) == AfterDecode(fam, buf, DecodeStream(dec, value))

\* ------------------------------------------------------- response bodies
\* A line the server sends: its text, what kind of line it is, the text
\* delta it carries, and whether it is the stream's terminator.
Frame(kind, text, frag, term) == [kind |-> kind, text |-> text, frag |-> frag, term |-> term]

ZaiDelta(c) ==
    Frame("delta",
          DataPrefix \o <<"{", "\"", "c", "h", "o", "i", "c", "e", "s", "\"", ":", "[", "{",
                          "\"", "d", "e", "l", "t", "a", "\"", ":", "{", "\"", "c", "o", "n",
                          "t", "e", "n", "t", "\"", ":", "\"">>
                     \o c \o <<"\"", "}", "}", "]", "}">>,
          c, FALSE)

OllamaDelta(c, done) ==
    Frame("delta",
          <<"{", "\"", "r", "e", "s", "p", "o", "n", "s", "e", "\"", ":", "\"">> \o c
              \o (IF done
                  THEN <<"\"", ",", "\"", "d", "o", "n", "e", "\"", ":", "t", "r", "u", "e", "}">>
                  ELSE <<"\"", ",", "\"", "d", "o", "n", "e", "\"", ":", "f", "a", "l", "s",
                         "e", "}">>),
          c, done)

ZaiHi == ZaiDelta(<<"H", "i">>)
ZaiAccent == ZaiDelta(<<"U+E9", "!">>)
ZaiDone == Frame("done", DoneLine, <<>>, TRUE)
ZaiBad ==
    Frame("bad", DataPrefix \o <<"{", "\"", "c", "h", "o", "i", "c", "e", "s", "\"", ":", "[",
                                 "{", "\"", "d", "e", "l", "t", "a", "\"">>, <<>>, FALSE)
ZaiNoDelta ==
    Frame("empty", DataPrefix \o <<"{", "\"", "c", "h", "o", "i", "c", "e", "s", "\"", ":", "[",
                                   "{", "\"", "d", "e", "l", "t", "a", "\"", ":", "{", "}", "}",
                                   "]", "}">>, <<>>, FALSE)
ZaiNull == Frame("empty", DataPrefix \o <<"n", "u", "l", "l">>, <<>>, FALSE)
Blank == Frame("noise", <<>>, <<>>, FALSE)
Comment == Frame("noise", <<":", " ", "p", "i", "n", "g">>, <<>>, FALSE)

OllamaHello == OllamaDelta(<<"H", "e", "l", "l", "o">>, FALSE)
OllamaAccent == OllamaDelta(<<"U+F6">>, FALSE)
OllamaLast == OllamaDelta(<<"!">>, TRUE)
OllamaBad ==
    Frame("bad", <<"{", "\"", "r", "e", "s", "p", "o", "n", "s", "e", "\"", ":">>, <<>>, FALSE)
OllamaNoText ==
    Frame("empty", <<"{", "\"", "d", "o", "n", "e", "\"", ":", "t", "r", "u", "e", "}">>,
          <<>>, TRUE)
OllamaNull == Frame("empty", <<"n", "u", "l", "l">>, <<>>, FALSE)

\* the valid lines every body of up to MaxLines lines is made of
ZaiCatalog == {ZaiHi, ZaiAccent, ZaiDone}
OllamaCatalog == {OllamaHello, OllamaAccent, OllamaLast}
Catalog(fam) == IF fam = "zai" THEN ZaiCatalog ELSE OllamaCatalog

\* further bodies: a bad line between two valid ones, Scenario B, and lines
\* that carry no text delta (the last of them has the empty text "")
ZaiExtraBodies ==
    { <<d1, ZaiBad, d2>> : d1 \in {ZaiHi, ZaiAccent}, d2 \in {ZaiHi, ZaiAccent} }
    \cup { <<ZaiHi, Blank, ZaiDone>>, <<Comment, ZaiHi>>, <<ZaiNoDelta, ZaiHi>>,
           <<ZaiNull, ZaiHi>>,
           <<Frame("empty", ZaiDelta(<<>>).text, <<>>, FALSE), ZaiHi>> }
OllamaExtraBodies ==
    { <<d1, OllamaBad, d2>> : d1 \in {OllamaHello, OllamaAccent}, d2 \in {OllamaAccent, OllamaLast} }
    \cup { <<OllamaHello, Blank, OllamaLast>>, <<OllamaNoText>>, <<OllamaNull, OllamaHello>>,
           <<Frame("empty", OllamaDelta(<<>>, FALSE).text, <<>>, FALSE), OllamaHello>> }

\* the response bodies of the stream specification
Bodies(fam) ==
    UNION { [1..n -> Catalog(fam)] : n \in 0..MaxLines }
    \cup (IF fam = "zai" THEN ZaiExtraBodies ELSE OllamaExtraBodies)

\* the bytes of the body: every line UTF-8 encoded and ended by a line feed
RECURSIVE WireOf(_)
WireOf(fs) ==
    IF fs = <<>> THEN <<>>
    ELSE Utf8Encode(Head(fs).text) \o <<"\n">> \o WireOf(Tail(fs))

\* the bodies a server can send for the lines fs: every line ended by a line
\* feed, or, when all of them carry a text delta and none is the last, the
\* same without the line feed that ends the last line
Wires(fs) ==
    {WireOf(fs)} \cup
    (IF fs # <<>> /\ \A i \in 1..Len(fs) : fs[i].kind = "delta" /\ ~fs[i].term
     THEN {SubSeq(WireOf(fs), 1, Len(WireOf(fs)) - 1)}
     ELSE {})

\* the text deltas the lines carry, in order
RECURSIVE FragsOf(_)
FragsOf(fs) ==
    IF fs = <<>> THEN <<>>
    ELSE (IF Head(fs).kind = "delta" THEN <<Head(fs).frag>> ELSE <<>>) \o FragsOf(Tail(fs))

\* how many of the lines fs lie wholly within the first n bytes of the body
RECURSIVE LinesWithin(_, _)
LinesWithin(fs, n) ==
    IF fs = <<>> THEN 0
    ELSE LET used == Len(Utf8Encode(Head(fs).text)) + 1 IN
         IF used > n THEN 0 ELSE 1 + LinesWithin(Tail(fs), n - used)

\* ------------------------------------------------ errors and HTTP replies
\* A thrown value: its name (Error, TypeError, AbortError, SyntaxError) and
\* its message.  text names the fixed words of the message, msg is the part
\* the backend supplied and status the number printed in it:
\*   "InvalidApiKey"   'Invalid API key. Check your Z.AI API key in Settings.'
\*   "QuotaWithLinks"  msg, a blank line, the billing and the subscribe link
\*   "Message"         msg alone
\*   "StatusFallback"  'Z.AI API returned ' status
\*   "NoBody"          'No response body from Z.AI' / '... from Ollama'
\*   "KeyRequired"     'API key is required. Configure it in Settings.'
\*   "ModelNotFound"   'Model "' model '" not found. Please select another model.'
\*   "OllamaReturned"  'Ollama returned ' status
\*   "FailedToFetch"   'Failed to fetch' (fetch rejecting on a network failure)
\*   "Aborted"         the message of the AbortError
Thrown(name, text, msg, status) == [name |-> name, text |-> text, msg |-> msg, status |-> status]
NoError == Thrown("none", "none", <<>>, 0)

UpperCase == <<"A", "B", "C", "D", "E", "F", "G", "H", "I", "J", "K", "L", "M", "N", "O", "P",
               "Q", "R", "S", "T", "U", "V", "W", "X", "Y", "Z">>
LowerCase == <<"a", "b", "c", "d", "e", "f", "g", "h", "i", "j", "k", "l", "m", "n", "o", "p",
               "q", "r", "s", "t", "u", "v", "w", "x", "y", "z">>

ToLower(s) ==
    [i \in 1..Len(s) |->
        IF \E k \in 1..26 : UpperCase[k] = s[i]
        THEN LowerCase[CHOOSE k \in 1..26 : UpperCase[k] = s[i]]
        ELSE s[i]]

\* String.prototype.includes(p)
Includes(s, p) == \E i \in 1..(Len(s) - Len(p) + 1) : SubSeq(s, i, i + Len(p) - 1) = p

QuotaWords ==
    { <<"i", "n", "s", "u", "f", "f", "i", "c", "i", "e", "n", "t", " ", "b", "a", "l", "a",
        "n", "c", "e">>,
      <<"r", "e", "c", "h", "a", "r", "g", "e">>,
      <<"a", "r", "r", "e", "a", "r", "s">>,
      <<"e", "x", "p", "i", "r", "e", "d">>,
      <<"q", "u", "o", "t", "a">> }

\* /insufficient balance|recharge|arrears|expired|quota/i.test(msg)
QuotaTest(msg) == \E w \in QuotaWords : Includes(ToLower(msg), w)

\* a || b
OrElse(a, b) == IF Truthy(a) THEN a ELSE b

\* response.ok
Ok(status) == status >= 200 /\ status <= 299

\* await response.json().catch(() => ({})): the parsed body, {} when the body
\* is no JSON or the read was aborted
JsonOrEmpty(body, aborted) ==
    LET p == JSONParse(body) IN
    IF aborted \/ ~p.ok THEN JObj(<<>>, <<>>) ELSE p.v

\* errObj?.error?.message || errObj?.message || response.statusText
ErrorMessageOf(errObj, statusText) ==
    OrElse(OrElse(OptProp(OptProp(errObj, <<"e", "r", "r", "o", "r">>),
                          <<"m", "e", "s", "s", "a", "g", "e">>),
                  OptProp(errObj, <<"m", "e", "s", "s", "a", "g", "e">>)),
           JStr(statusText))

\* the quota test placed before the 401 test
ZaiNotOkQuotaFirst(status, errObj, statusText) ==
    LET msg == JsToString(ErrorMessageOf(errObj, statusText)) IN
    IF status = 429 \/ QuotaTest(msg) THEN Thrown("Error", "QuotaWithLinks", msg, 0)
    ELSE IF status = 401 THEN Thrown("Error", "InvalidApiKey", <<>>, 0)
    ELSE IF msg # <<>> THEN Thrown("Error", "Message", msg, 0)
    ELSE Thrown("Error", "StatusFallback", <<>>, status)

\* Z.AI: what if (!response.ok) { ... } throws
ZaiNotOk(status, errObj, statusText) ==
    LET msg == JsToString(ErrorMessageOf(errObj, statusText)) IN
    IF status = 401 THEN Thrown("Error", "InvalidApiKey", <<>>, 0)
    ELSE IF status = 429 \/ QuotaTest(msg) THEN Thrown("Error", "QuotaWithLinks", msg, 0)
    ELSE IF msg # <<>> THEN Thrown("Error", "Message", msg, 0)
    ELSE Thrown("Error", "StatusFallback", <<>>, status)

\* Ollama: what if (!response.ok) { ... } throws
OllamaNotOk(status) ==
    IF status = 404 THEN Thrown("Error", "ModelNotFound", <<>>, 0)
    ELSE Thrown("Error", "OllamaReturned", <<>>, status)

\* The bodies of error replies: the text, the message it carries for the
\* user (none when it is no JSON) and whether that message speaks of quota,
\* balance or expiry.
ErrorBody(text, message, quota) == [text |-> text, message |-> message, quota |-> quota]

QuotaBody ==
    ErrorBody(<<"{", "\"", "e", "r", "r", "o", "r", "\"", ":", "{", "\"", "m", "e", "s", "s",
                "a", "g", "e", "\"", ":", "\"", "I", "n", "s", "u", "f", "f", "i", "c", "i",
                "e", "n", "t", " ", "b", "a", "l", "a", "n", "c", "e", "\"", "}", "}">>,
              <<"I", "n", "s", "u", "f", "f", "i", "c", "i", "e", "n", "t", " ", "b", "a",
                "l", "a", "n", "c", "e">>, TRUE)
PlainBody ==
    ErrorBody(<<"{", "\"", "e", "r", "r", "o", "r", "\"", ":", "{", "\"", "m", "e", "s", "s",
                "a", "g", "e", "\"", ":", "\"", "B", "a", "d", " ", "r", "e", "q", "u", "e",
                "s", "t", "\"", "}", "}">>,
              <<"B", "a", "d", " ", "r", "e", "q", "u", "e", "s", "t">>, FALSE)
ExpiredBody ==
    ErrorBody(<<"{", "\"", "m", "e", "s", "s", "a", "g", "e", "\"", ":", "\"", "t", "o", "k",
                "e", "n", " ", "e", "x", "p", "i", "r", "e", "d", "\"", "}">>,
              <<"t", "o", "k", "e", "n", " ", "e", "x", "p", "i", "r", "e", "d">>, TRUE)
NoJsonBody == ErrorBody(<<"o", "o", "p", "s">>, <<>>, FALSE)

ErrorBodies == {QuotaBody, PlainBody, ExpiredBody, NoJsonBody}

\* response.statusText: empty over HTTP/2, a reason phrase over HTTP/1.1
StatusTexts == { <<>>, <<"E", "r", "r", "o", "r">> }

ErrorStatuses == {400, 401, 404, 429, 500}

\* ------------------------------------------------------------ application
UPDATE_INTERVAL_MS == 50

GLM_MODELS == {"glm-4.5-flash", "glm-4.7-flash"}
DEFAULT_MODEL == "glm-4.5-flash"

\* what the user types into the textarea: nothing, white space, a text
Inputs == { <<>>, <<" ">>, <<"h", "i">> }

\* the stored API key: none, or a key
ApiKeys == { <<>>, <<"k">> }

\* state.error: null, or the message shown in the status row; text names the
\* words as in Thrown, with
\*   "null"           no error
\*   "ConfigureKey"   'Configure your Z.AI API key in Settings (gear icon) ...'
\*   "Stopped"        'Generation stopped.'
\*   "CannotConnect"  'Cannot connect to Z.AI. Check your network and API key.'
Banner(text, msg, status) == [text |-> text, msg |-> msg, status |-> status]
NoBanner == Banner("null", <<>>, 0)

\*   "CannotConnectOllama"  'Cannot connect to Ollama. Is it running on localhost:11434?'
\*   "Unexpected"     'An unexpected error occurred. Please try again.'
\* A thrown value that is no Error has the name "NotAnError".

\* getErrorMessage(error) of lib/zai
GetErrorMessage(err) ==
    IF err.name = "NotAnError" THEN Banner("Unexpected", <<>>, 0)
    ELSE IF err.name = "AbortError" THEN Banner("Stopped", <<>>, 0)
    ELSE IF err.text = "FailedToFetch" \/ Includes(err.msg, <<"f", "e", "t", "c", "h">>)
         THEN Banner("CannotConnect", <<>>, 0)
         ELSE Banner(err.text, err.msg, err.status)

\* getErrorMessage(error) of lib/ollama
OllamaGetErrorMessage(err) ==
    IF err.name = "NotAnError" THEN Banner("Unexpected", <<>>, 0)
    ELSE IF err.name = "AbortError" THEN Banner("Stopped", <<>>, 0)
    ELSE IF err.text = "FailedToFetch" \/ Includes(err.msg, <<"f", "e", "t", "c", "h">>)
         THEN Banner("CannotConnectOllama", <<>>, 0)
         ELSE Banner(err.text, err.msg, err.status)

\* the texts joined: what += makes of them
RECURSIVE Flat(_)
Flat(texts) == IF texts = <<>> THEN <<>> ELSE Head(texts) \o Flat(Tail(texts))

\* the values Date.now() takes
Clock == { Epoch + k * TickMs : k \in 0..MaxTicks }

\* the response body the server sends to the application: two text deltas
\* and the terminator
AppBodies == { <<ZaiHi, ZaiAccent, ZaiDone>> }

\* the replies that are not ok
Reply(st, body, statusText) == [status |-> st, body |-> body, statusText |-> statusText]
AppReplies == { Reply(401, QuotaBody, <<>>), Reply(500, NoJsonBody, <<"E", "r", "r", "o", "r">>) }

\* ------------------------------------------------------------------ state
VARIABLES
    family,     \* stream specification: the backend family of the generator
    frames,     \* the lines the server sends when it answers 200
    wire,       \* the bytes of the response body
    status,     \* the HTTP status of the reply, 0 before it arrives
    reply,      \* the error body and status text of a reply that is not ok
    pos,        \* bytes the reader has handed out so far
    decoder,    \* the TextDecoder's state
    buffer,     \* let buffer
    yielded,    \* the texts the generator has yielded
    genState,   \* "fetch" | "reading" | "returned" | "threw"
    genError,   \* what the generator threw
    splitLine,  \* some chunk ended inside a line
    splitChar,  \* some chunk ended inside a UTF-8 sequence
    inputText,           \* state.inputText
    model,               \* state.model
    apiKey,              \* apiKey of the AppProvider
    isGenerating,        \* state.isGenerating
    isStreaming,         \* state.isStreaming
    error,               \* state.error
    outputText,          \* state.outputText
    abortControllerRef,  \* the session whose controller the ref holds, 0 for null
    pendingOutputRef,    \* pendingOutputRef.current
    lastUpdateRef,       \* lastUpdateRef.current
    now,                 \* what Date.now() gave last
    sess,                \* the calls of handleGenerate that reached generateStream
    started,             \* how many of them there are
    delivered,           \* the texts each of them got from its generator
    op,                  \* the handler that ran last: "generate", "stop", "key",
                         \* "refresh", or "other" for a step that no user caused
    zaiConnected,        \* zaiConnected of the AppProvider: "null", "true" or "false"
    probes,              \* the calls of checkConnection that reached fetch
    issued,              \* how many of them there are
    store,               \* main process: the electron-store of the application
    safeKey,             \* the key safeStorage seals under now, "none" without one
    opened,              \* the URLs handed to shell.openExternal that it opened
    ipc,                 \* the ipcMain handler that ran last and what it gave
    mainNow,             \* what new Date() gives in the main process
    savedKey,            \* the key the last setApiKey that resolved put away
    accepted             \* every event analytics:track has taken, in call order

streamVars == <<family, frames, wire, status, reply, pos, decoder, buffer, yielded,
                genState, genError, splitLine, splitChar>>

appVars == <<inputText, model, apiKey, isGenerating, isStreaming, error, outputText,
             abortControllerRef, pendingOutputRef, lastUpdateRef, now, sess, started,
             delivered, op>>

probeVars == <<zaiConnected, probes, issued>>

mainVars == <<store, safeKey, opened, ipc, mainNow, savedKey, accepted>>

vars == <<streamVars, appVars, probeVars, mainVars>>

NoReply == [body |-> ErrorBody(<<>>, <<>>, FALSE), statusText |-> <<>>]

\* A call of handleGenerate: where its generator waits ("fetch", "json" for
\* response.json() of a reply that is not ok, "read" for reader.read()), how
\* it ended, whether its signal is aborted, the key of its Authorization
\* header, and the generator's locals.
NoSession ==
    [pc |-> "none", end |-> "none", aborted |-> FALSE, key |-> <<>>, status |-> 0,
     reply |-> NoReply, frames |-> <<>>, pos |-> 0, dec |-> <<>>, buf |-> <<>>]

Ended(how, aborted) == [NoSession EXCEPT !.pc = "ended", !.end = how, !.aborted = aborted]

Live(s) == sess[s].pc \in {"fetch", "json", "read"}

\* the state after the AppProvider mounts
AppInit ==
    /\ inputText = <<>>
    /\ model = DEFAULT_MODEL
    /\ apiKey = <<>>
    /\ isGenerating = FALSE
    /\ isStreaming = FALSE
    /\ error = NoBanner
    /\ outputText = <<>>
    /\ abortControllerRef = 0
    /\ pendingOutputRef = <<>>
    /\ lastUpdateRef = 0
    /\ now = Epoch
    /\ sess = [s \in 1..MaxSessions |-> NoSession]
    /\ started = 0
    /\ delivered = [s \in 1..MaxSessions |-> <<>>]
    /\ op = "other"

\* no generator of the stream specification
StreamIdle ==
    /\ family = "zai"
    /\ frames = <<>>
    /\ wire = <<>>
    /\ status = 0
    /\ reply = NoReply
    /\ pos = 0
    /\ decoder = <<>>
    /\ buffer = <<>>
    /\ yielded = <<>>
    /\ genState = "returned"
    /\ genError = NoError
    /\ splitLine = FALSE
    /\ splitChar = FALSE

\* A call of checkConnection: "fetch" while its request is out, "settled"
\* after it, the key of its Authorization header, the milliseconds of the
\* timer it holds (0 for none), what came back, and what the call gave:
\* "true", "false", or "thrown".
NoProbe ==
    [pc |-> "none", key |-> <<>>, timer |-> 0, kind |-> "none", status |-> 0,
     result |-> "none"]

\* the mount effect ran checkApiKey with the empty key: setZaiConnected(false)
ProbeIdle ==
    /\ zaiConnected = "false"
    /\ probes = [p \in 1..MaxProbes |-> NoProbe]
    /\ issued = 0

\* What an ipcMain handler was called with and how the call ended: "ok" with
\* the value it resolved to, or "threw" with the error's message.
Call(channel, arg, result, value) ==
    [channel |-> channel, arg |-> arg, result |-> result, value |-> value]

EmptyStore == [apiKeyEnc |-> <<>>, analyticsEvents |-> <<>>, analyticsCounters |-> <<>>]

\* no key put away: the text that was stored and the key it was sealed under
NoSavedKey == [text |-> <<>>, under |-> "none"]

\* the main process of a first run, before any renderer has called it
MainIdle ==
    /\ store = EmptyStore
    /\ safeKey = "os1"
    /\ opened = <<>>
    /\ ipc = Call("none", <<>>, "ok", <<>>)
    /\ mainNow = Epoch
    /\ savedKey = NoSavedKey
    /\ accepted = <<>>

\* ---------------------------------------------- the generator on its own
StreamInit ==
    /\ family \in Families
    /\ frames \in Bodies(family)
    /\ wire \in Wires(frames)
    /\ status = 0
    /\ reply = NoReply
    /\ pos = 0
    /\ decoder = <<>>
    /\ buffer = <<>>
    /\ yielded = <<>>
    /\ genState = "fetch"
    /\ genError = NoError
    /\ splitLine = FALSE
    /\ splitChar = FALSE
    /\ AppInit
    /\ ProbeIdle
    /\ MainIdle

\* fetch resolves with 200: response.body.getReader()
StreamOk ==
    /\ genState = "fetch"
    /\ status' = 200
    /\ genState' = "reading"
    /\ UNCHANGED <<family, frames, wire, reply, pos, decoder, buffer, yielded, genError,
                   splitLine, splitChar>>
    /\ UNCHANGED <<appVars, probeVars, mainVars>>

\* fetch resolves with a status that is not ok: the non-ok branch throws
StreamNotOk(st, body, statusText) ==
    /\ genState = "fetch"
    /\ frames = <<>>
    /\ status' = st
    /\ reply' = [body |-> body, statusText |-> statusText]
    /\ genState' = "threw"
    /\ genError' = IF family = "zai"
                   THEN ZaiNotOk(st, JsonOrEmpty(body.text, FALSE), statusText)
                   ELSE OllamaNotOk(st)
    /\ UNCHANGED <<family, frames, wire, pos, decoder, buffer, yielded, splitLine, splitChar>>
    /\ UNCHANGED <<appVars, probeVars, mainVars>>

\* reader.read() gives the next n bytes
StreamRead(n) ==
    /\ genState = "reading"
    /\ pos + n <= Len(wire)
    /\ \E r \in {ReadLoopBody(family, decoder, buffer, SubSeq(wire, pos + 1, pos + n))} :
       /\ decoder' = r.dec
       /\ buffer' = r.buffer
       /\ yielded' = yielded \o r.out
       /\ genState' = IF r.thrown THEN "threw" ELSE "reading"
       /\ genError' = IF r.thrown THEN Thrown("SyntaxError", "Message", <<>>, 0) ELSE genError
    /\ pos' = pos + n
    /\ splitLine' = (splitLine \/ wire[pos + n] # "\n")
    /\ splitChar' = (splitChar \/ wire[pos + n] \in Lead2)
    /\ UNCHANGED <<family, frames, wire, status, reply>>
    /\ UNCHANGED <<appVars, probeVars, mainVars>>

\* what is left in buffer taken as a last line
StreamEndFlush ==
    /\ genState = "reading"
    /\ pos = Len(wire)
    /\ genState' = "returned"
    /\ yielded' = yielded \o ProcessLine(family, buffer).out
    /\ buffer' = <<>>
    /\ UNCHANGED <<family, frames, wire, status, reply, pos, decoder, genError, splitLine,
                   splitChar>>
    /\ UNCHANGED <<appVars, probeVars, mainVars>>

\* reader.read() gives done: break, finally releaseLock, return
StreamEnd ==
    /\ genState = "reading"
    /\ pos = Len(wire)
    /\ genState' = "returned"
    /\ UNCHANGED <<family, frames, wire, status, reply, pos, decoder, buffer, yielded,
                   genError, splitLine, splitChar>>
    /\ UNCHANGED <<appVars, probeVars, mainVars>>

StreamNext ==
    \/ StreamOk
    \/ \E st \in ErrorStatuses, body \in ErrorBodies, statusText \in StatusTexts :
          StreamNotOk(st, body, statusText)
    \/ \E n \in 1..(Len(wire) - pos) : StreamRead(n)
    \/ StreamEnd

SpecStream == StreamInit /\ [][StreamNext]_vars

\* ------------------------------------------------------- the application
\* State updates are taken as rendered when the task that queued them ends:
\* an updater (prev) => ({ ...prev, outputText: pendingOutputRef.current })
\* reads the ref then.  One chunk's whole processing, every turn of the
\* for-await loop it causes included, is one task, and so is a handler with
\* the promise reactions it sets off (abort() rejects what is pending).
Init == StreamIdle /\ AppInit /\ ProbeIdle /\ MainIdle

\* <textarea onChange ... disabled={state.isGenerating}>
ChangeInput(t) ==
    /\ ~isGenerating
    /\ t # inputText
    /\ inputText' = t
    /\ op' = "other"
    /\ UNCHANGED <<model, apiKey, isGenerating, isStreaming, error, outputText,
                   abortControllerRef, pendingOutputRef, lastUpdateRef, now, sess, started,
                   delivered>>
    /\ UNCHANGED <<streamVars, probeVars, mainVars>>

\* <select value={state.model} onChange ...> over state.models
SelectModel(m) ==
    /\ m # model
    /\ model' = m
    /\ op' = "other"
    /\ UNCHANGED <<inputText, apiKey, isGenerating, isStreaming, error, outputText,
                   abortControllerRef, pendingOutputRef, lastUpdateRef, now, sess, started,
                   delivered>>
    /\ UNCHANGED <<streamVars, probeVars, mainVars>>

\* setApiKeyState(key): the stored key loaded, saved or cleared
SetApiKey(k) ==
    /\ k # apiKey
    /\ apiKey' = k
    /\ op' = "other"
    /\ UNCHANGED <<inputText, model, isGenerating, isStreaming, error, outputText,
                   abortControllerRef, pendingOutputRef, lastUpdateRef, now, sess, started,
                   delivered>>
    /\ UNCHANGED <<streamVars, probeVars, mainVars>>

\* the guard that looks at the text as typed
RejectsUntrimmed(input, mdl) == input = <<>> \/ mdl = ""

\* if (!state.inputText.trim() || !state.model) return
Rejects(input, mdl) == Trim(input) = <<>> \/ mdl = ""

\* handleGenerate past its guards, up to the first await of generateStream
\* (the fetch): a new controller, the refs reset, the flags set
StartSession ==
    /\ started < MaxSessions
    /\ started' = started + 1
    /\ isGenerating' = TRUE
    /\ isStreaming' = TRUE
    /\ error' = NoBanner
    /\ outputText' = <<>>
    /\ abortControllerRef' = started + 1
    /\ pendingOutputRef' = <<>>
    /\ lastUpdateRef' = 0
    /\ sess' = [sess EXCEPT ![started + 1] =
                    [NoSession EXCEPT !.pc = "fetch", !.key = Trim(apiKey)]]
    /\ UNCHANGED delivered

HandleGenerate ==
    /\ op' = "generate"
    /\ IF Rejects(inputText, model)
       THEN UNCHANGED <<isGenerating, isStreaming, error, outputText, abortControllerRef,
                        pendingOutputRef, lastUpdateRef, sess, started, delivered>>
       ELSE IF Trim(apiKey) = <<>>
            THEN /\ error' = Banner("ConfigureKey", <<>>, 0)
                 /\ UNCHANGED <<isGenerating, isStreaming, outputText, abortControllerRef,
                                pendingOutputRef, lastUpdateRef, sess, started, delivered>>
            ELSE StartSession
    /\ UNCHANGED <<inputText, model, apiKey, now>>
    /\ UNCHANGED <<streamVars, probeVars, mainVars>>

\* what the generator throws from its non-ok branch once response.json() has
\* settled, by parsing or by the abort
NotOkError(c, aborted) ==
    ZaiNotOk(c.status, JsonOrEmpty(c.reply.body.text, aborted), c.reply.statusText)

\* abort() of the stored controller: a pending fetch or read rejects with an
\* AbortError; a pending response.json() rejects too, and its catch turns
\* that into {}
AbortStored(c) ==
    IF c = 0 THEN sess
    ELSE IF ~Live(c) THEN [sess EXCEPT ![c].aborted = TRUE]
    ELSE IF sess[c].pc = "json" THEN [sess EXCEPT ![c] = Ended("failed", TRUE)]
    ELSE [sess EXCEPT ![c] = Ended("aborted", TRUE)]

\* handleStop, and the catch branch of the handleGenerate it aborts
HandleStop ==
    /\ op' = "stop"
    /\ sess' = AbortStored(abortControllerRef)
    /\ outputText' = pendingOutputRef
    /\ isStreaming' = FALSE
    /\ isGenerating' = FALSE
    /\ error' = IF abortControllerRef # 0 /\ sess[abortControllerRef].pc = "json"
                THEN GetErrorMessage(NotOkError(sess[abortControllerRef], TRUE))
                ELSE error
    /\ UNCHANGED <<inputText, model, apiKey, abortControllerRef, pendingOutputRef,
                   lastUpdateRef, now, started, delivered>>
    /\ UNCHANGED <<streamVars, probeVars, mainVars>>

\* the Generate button: shown while not streaming, disabled={!canGenerate}
ClickGenerate ==
    /\ ~isStreaming
    /\ Len(Trim(inputText)) > 0 /\ model # "" /\ ~isGenerating
    /\ HandleGenerate

\* the Stop button: shown while streaming
ClickStop == isStreaming /\ HandleStop

\* keydown: (e.metaKey || e.ctrlKey) && e.key === 'Enter'
KeyCtrlEnter == HandleGenerate

\* keydown: e.key === 'Escape'
KeyEscape == HandleStop

\* the failure branch leaves isGenerating set
CaughtErrorStaysBusy(s, err) ==
    /\ error' = GetErrorMessage(err)
    /\ isStreaming' = FALSE
    /\ isGenerating' = isGenerating
    /\ sess' = [sess EXCEPT ![s] = Ended("failed", @.aborted)]

\* the catch branch for an error that is no AbortError
CaughtError(s, err) ==
    /\ error' = GetErrorMessage(err)
    /\ isStreaming' = FALSE
    /\ isGenerating' = FALSE
    /\ sess' = [sess EXCEPT ![s] = Ended("failed", @.aborted)]

\* fetch resolves with 200 and a body
FetchOk(s, body) ==
    /\ sess[s].pc = "fetch"
    /\ sess' = [sess EXCEPT ![s].pc = "read", ![s].status = 200, ![s].frames = body]
    /\ op' = "other"
    /\ UNCHANGED <<inputText, model, apiKey, isGenerating, isStreaming, error, outputText,
                   abortControllerRef, pendingOutputRef, lastUpdateRef, now, started,
                   delivered>>
    /\ UNCHANGED <<streamVars, probeVars, mainVars>>

\* fetch resolves with a status that is not ok: await response.json()
FetchNotOk(s, r) ==
    /\ sess[s].pc = "fetch"
    /\ sess' = [sess EXCEPT ![s].pc = "json", ![s].status = r.status,
                            ![s].reply = [body |-> r.body, statusText |-> r.statusText]]
    /\ op' = "other"
    /\ UNCHANGED <<inputText, model, apiKey, isGenerating, isStreaming, error, outputText,
                   abortControllerRef, pendingOutputRef, lastUpdateRef, now, started,
                   delivered>>
    /\ UNCHANGED <<streamVars, probeVars, mainVars>>

\* fetch rejects: the network is down
FetchFail(s) ==
    /\ sess[s].pc = "fetch"
    /\ CaughtError(s, Thrown("TypeError", "FailedToFetch", <<>>, 0))
    /\ op' = "other"
    /\ UNCHANGED <<inputText, model, apiKey, outputText, abortControllerRef,
                   pendingOutputRef, lastUpdateRef, now, started, delivered>>
    /\ UNCHANGED <<streamVars, probeVars, mainVars>>

\* response.json() settles: the non-ok branch throws
JsonSettled(s) ==
    /\ sess[s].pc = "json"
    /\ CaughtError(s, NotOkError(sess[s], FALSE))
    /\ op' = "other"
    /\ UNCHANGED <<inputText, model, apiKey, outputText, abortControllerRef,
                   pendingOutputRef, lastUpdateRef, now, started, delivered>>
    /\ UNCHANGED <<streamVars, probeVars, mainVars>>

\* the for-await body over the texts one chunk makes the generator yield, at
\* time t: all are added to the ref; Date.now() is the same for all, so the
\* first passes the throttle or none does, and the update it queues reads
\* the ref when the task ends, with all of them in it
Accumulate(s, out, t) ==
    /\ pendingOutputRef' = pendingOutputRef \o Flat(out)
    /\ delivered' = [delivered EXCEPT ![s] = @ \o out]
    /\ lastUpdateRef' = IF out # <<>> /\ t - lastUpdateRef >= UPDATE_INTERVAL_MS
                        THEN t ELSE lastUpdateRef
    /\ outputText' = IF out # <<>> /\ t - lastUpdateRef >= UPDATE_INTERVAL_MS
                     THEN pendingOutputRef' ELSE outputText

\* reader.read() gives the next n lines of the body in one chunk, at time t
ReadChunk(s, n, t) ==
    /\ sess[s].pc = "read"
    /\ sess[s].pos + n <= Len(sess[s].frames)
    /\ t >= now
    /\ now' = t
    /\ \E r \in {ReadLoopBody("zai", sess[s].dec, sess[s].buf,
                              WireOf(SubSeq(sess[s].frames, sess[s].pos + 1,
                                            sess[s].pos + n)))} :
          /\ Accumulate(s, r.out, t)
          /\ IF r.thrown
             THEN CaughtError(s, Thrown("SyntaxError", "Message", <<>>, 0))
             ELSE /\ sess' = [sess EXCEPT ![s].pos = @ + n, ![s].dec = r.dec,
                                          ![s].buf = r.buffer]
                  /\ UNCHANGED <<isGenerating, isStreaming, error>>
    /\ op' = "other"
    /\ UNCHANGED <<inputText, model, apiKey, abortControllerRef, started>>
    /\ UNCHANGED <<streamVars, probeVars, mainVars>>

\* reader.read() gives done: the generator returns, the loop ends, the flush
ReadDone(s) ==
    /\ sess[s].pc = "read"
    /\ sess[s].pos = Len(sess[s].frames)
    /\ outputText' = pendingOutputRef
    /\ isStreaming' = FALSE
    /\ isGenerating' = FALSE
    /\ sess' = [sess EXCEPT ![s] = Ended("completed", @.aborted)]
    /\ op' = "other"
    /\ UNCHANGED <<inputText, model, apiKey, error, abortControllerRef, pendingOutputRef,
                   lastUpdateRef, now, started, delivered>>
    /\ UNCHANGED <<streamVars, probeVars, mainVars>>

\* reader.read() rejects: the connection dropped
ReadFail(s) ==
    /\ sess[s].pc = "read"
    /\ CaughtError(s, Thrown("TypeError", "NetworkError", <<>>, 0))
    /\ op' = "other"
    /\ UNCHANGED <<inputText, model, apiKey, outputText, abortControllerRef,
                   pendingOutputRef, lastUpdateRef, now, started, delivered>>
    /\ UNCHANGED <<streamVars, probeVars, mainVars>>

Next ==
    \/ \E t \in Inputs : ChangeInput(t)
    \/ \E m \in GLM_MODELS : SelectModel(m)
    \/ \E k \in ApiKeys : SetApiKey(k)
    \/ ClickGenerate
    \/ KeyCtrlEnter
    \/ ClickStop
    \/ KeyEscape
    \/ \E s \in 1..MaxSessions, body \in AppBodies : FetchOk(s, body)
    \/ \E s \in 1..MaxSessions, r \in AppReplies : FetchNotOk(s, r)
    \/ \E s \in 1..MaxSessions : FetchFail(s)
    \/ \E s \in 1..MaxSessions : JsonSettled(s)
    \/ \E s \in 1..MaxSessions, n \in 1..MaxCoalesce, t \in Clock : ReadChunk(s, n, t)
    \/ \E s \in 1..MaxSessions : ReadDone(s)
    \/ \E s \in 1..MaxSessions : ReadFail(s)

Spec == Init /\ [][Next]_vars

\* ------------------------------------------------ the connectivity probe
\* checkApiKey and checkConnection, followed on their own: nothing of the
\* generation request reads or writes zaiConnected.
PROBE_TIMEOUT_MS == 8000

ProbeStatuses == {200, 400, 401, 403, 429, 500}

Outcome(kind, st) == [kind |-> kind, status |-> st]

\* what fetch can come to: a response, a rejection, or the timer's abort()
Outcomes ==
    { Outcome("response", st) : st \in ProbeStatuses }
    \cup { Outcome("network", 0), Outcome("timeout", 0) }

\* the catch of checkConnection left out
CheckConnectionNoCatch(o) ==
    IF o.kind = "response"
    THEN IF o.status = 401 THEN "false"
         ELSE IF Ok(o.status) \/ o.status = 400 \/ o.status = 429 THEN "true" ELSE "false"
    ELSE "thrown"

\* 2xx alone counts as connected
CheckConnectionOkOnly(o) ==
    IF o.kind = "response" /\ Ok(o.status) THEN "true" ELSE "false"

\* checkConnection once fetch has settled
CheckConnection(o) ==
    IF o.kind = "response"
    THEN IF o.status = 401 THEN "false"
         ELSE IF Ok(o.status) \/ o.status = 400 \/ o.status = 429 THEN "true" ELSE "false"
    ELSE "false"

InFlight == { p \in 1..MaxProbes : probes[p].pc = "fetch" }

sessionVars == <<inputText, model, isGenerating, isStreaming, error, outputText,
                 abortControllerRef, pendingOutputRef, lastUpdateRef, now, sess, started,
                 delivered>>

\* the key tested as it is, without trim()
CheckApiKeyUntrimmed(key) ==
    IF key = <<>>
    THEN /\ zaiConnected' = "false"
         /\ UNCHANGED <<probes, issued>>
    ELSE /\ issued < MaxProbes
         /\ zaiConnected' = "null"
         /\ issued' = issued + 1
         /\ probes' = [probes EXCEPT ![issued + 1] =
                          [NoProbe EXCEPT !.pc = "fetch", !.key = Trim(key),
                                          !.timer = PROBE_TIMEOUT_MS]]

\* checkApiKey() up to its await, and checkConnection up to fetch
CheckApiKey(key) ==
    IF Trim(key) = <<>>
    THEN /\ zaiConnected' = "false"
         /\ UNCHANGED <<probes, issued>>
    ELSE /\ issued < MaxProbes
         /\ zaiConnected' = "null"
         /\ issued' = issued + 1
         /\ probes' = [probes EXCEPT ![issued + 1] =
                          [NoProbe EXCEPT !.pc = "fetch", !.key = Trim(key),
                                          !.timer = PROBE_TIMEOUT_MS]]

\* setApiKeyState(key) with another key: checkApiKey is a new callback and the
\* effect calls it
ChangeApiKey(k) ==
    /\ k # apiKey
    /\ apiKey' = k
    /\ CheckApiKey(k)
    /\ op' = "key"
    /\ UNCHANGED sessionVars
    /\ UNCHANGED <<streamVars, mainVars>>

\* <button onClick={onRefresh} disabled={isLoading}>
Refresh ==
    /\ zaiConnected # "null"
    /\ CheckApiKey(apiKey)
    /\ op' = "refresh"
    /\ UNCHANGED <<apiKey, sessionVars>>
    /\ UNCHANGED <<streamVars, mainVars>>

\* the answer of a probe also takes the error banner away
SettleClearsError(p, o) ==
    /\ probes[p].pc = "fetch"
    /\ \E r \in {CheckConnection(o)} :
          /\ probes' = [probes EXCEPT ![p] =
                           [pc |-> "settled", key |-> @.key, timer |-> 0, kind |-> o.kind,
                            status |-> o.status, result |-> r]]
          /\ zaiConnected' = IF r = "thrown" THEN "false" ELSE r
    /\ op' = "other"
    /\ error' = NoBanner
    /\ UNCHANGED <<apiKey, issued, inputText, model, isGenerating, isStreaming, outputText,
                   abortControllerRef, pendingOutputRef, lastUpdateRef, now, sess, started,
                   delivered>>
    /\ UNCHANGED <<streamVars, mainVars>>

\* fetch settles: clearTimeout, checkConnection returns or throws, and
\* checkApiKey calls setZaiConnected(ok), or setZaiConnected(false) in its catch
Settle(p, o) ==
    /\ probes[p].pc = "fetch"
    /\ \E r \in {CheckConnection(o)} :
          /\ probes' = [probes EXCEPT ![p] =
                           [pc |-> "settled", key |-> @.key, timer |-> 0, kind |-> o.kind,
                            status |-> o.status, result |-> r]]
          /\ zaiConnected' = IF r = "thrown" THEN "false" ELSE r
    /\ op' = "other"
    /\ UNCHANGED <<apiKey, issued, sessionVars>>
    /\ UNCHANGED <<streamVars, mainVars>>

\* the response arrives
ProbeResponse(p, st) == Settle(p, Outcome("response", st))

\* fetch rejects: no network
ProbeFail(p) == Settle(p, Outcome("network", 0))

\* the timer fires first: controller.abort() rejects fetch
ProbeTimeout(p) == probes[p].timer = PROBE_TIMEOUT_MS /\ Settle(p, Outcome("timeout", 0))

ProbeNext ==
    \/ \E k \in ApiKeys : ChangeApiKey(k)
    \/ Refresh
    \/ \E p \in 1..MaxProbes, st \in ProbeStatuses : ProbeResponse(p, st)
    \/ \E p \in 1..MaxProbes : ProbeFail(p)
    \/ \E p \in 1..MaxProbes : ProbeTimeout(p)

SpecProbe == Init /\ [][ProbeNext]_vars

\* a request that is out settles: the response, the rejection or the timer
SpecProbeFair ==
    SpecProbe /\ WF_vars(\E p \in 1..MaxProbes, o \in Outcomes : Settle(p, o))

\* ------------------------------------- the request and the probe together
\* The whole renderer: every handler of App, with the key stored through
\* ChangeApiKey (the effect runs checkApiKey), one request and two probes.
\* setApiKey of the AppProvider takes any string: keys of white space and
\* keys with white space around them are followed here too.
UntrimmedKeys == { <<" ">>, <<" ", "k", " ">> }

JointNext ==
    \/ \E t \in Inputs : ChangeInput(t)
    \/ \E m \in GLM_MODELS : SelectModel(m)
    \/ \E k \in ApiKeys \cup UntrimmedKeys : ChangeApiKey(k) /\ issued' <= MaxJoint + 1
    \/ Refresh /\ issued' <= MaxJoint + 1
    \/ \E p \in 1..MaxProbes, st \in ProbeStatuses : ProbeResponse(p, st)
    \/ \E p \in 1..MaxProbes : ProbeFail(p)
    \/ \E p \in 1..MaxProbes : ProbeTimeout(p)
    \/ ClickGenerate /\ started' <= MaxJoint
    \/ KeyCtrlEnter /\ started' <= MaxJoint
    \/ ClickStop
    \/ KeyEscape
    \/ \E s \in 1..MaxSessions, body \in AppBodies : FetchOk(s, body)
    \/ \E s \in 1..MaxSessions, r \in AppReplies : FetchNotOk(s, r)
    \/ \E s \in 1..MaxSessions : FetchFail(s)
    \/ \E s \in 1..MaxSessions : JsonSettled(s)
    \/ \E s \in 1..MaxSessions, n \in 1..MaxCoalesce : ReadChunk(s, n, now)
    \/ \E s \in 1..MaxSessions : ReadDone(s)
    \/ \E s \in 1..MaxSessions : ReadFail(s)

SpecJoint == Init /\ [][JointNext]_vars

\* ------------------------------------------------- getErrorMessage alone
\* what the catch of handleGenerate can be handed besides an HTTP error: the
\* abort, fetch rejected ('Failed to fetch'), reader.read() rejected
\* ('network error'), 'No response body from Z.AI', an error whose message a
\* server wrote with the word fetch in it, and a value that is no Error
OtherThrown ==
    { Thrown("AbortError", "Aborted", <<>>, 0),
      Thrown("TypeError", "FailedToFetch", <<>>, 0),
      Thrown("TypeError", "NetworkError", <<>>, 0),
      Thrown("Error", "NoResponseBody", <<>>, 0),
      Thrown("Error", "Message", <<"p", "r", "e", "f", "e", "t", "c", "h">>, 0),
      Thrown("NotAnError", "Value", <<>>, 0) }

\* something has been thrown and nothing is shown yet
ErrorsInit ==
    /\ family \in Families
    /\ \/ /\ status \in ErrorStatuses
          /\ reply \in { [body |-> b, statusText |-> t] : b \in ErrorBodies, t \in StatusTexts }
          /\ genError = IF family = "zai"
                        THEN ZaiNotOk(status, JsonOrEmpty(reply.body.text, FALSE),
                                      reply.statusText)
                        ELSE OllamaNotOk(status)
       \/ /\ status = 0
          /\ reply = NoReply
          /\ genError \in OtherThrown
    /\ genState = "threw"
    /\ frames = <<>>
    /\ wire = <<>>
    /\ pos = 0
    /\ decoder = <<>>
    /\ buffer = <<>>
    /\ yielded = <<>>
    /\ splitLine = FALSE
    /\ splitChar = FALSE
    /\ AppInit
    /\ ProbeIdle
    /\ MainIdle

\* error: getErrorMessage(error)
ReportError ==
    /\ genState = "threw"
    /\ error = NoBanner
    /\ error' = IF family = "zai" THEN GetErrorMessage(genError)
                ELSE OllamaGetErrorMessage(genError)
    /\ op' = "other"
    /\ UNCHANGED <<inputText, model, apiKey, isGenerating, isStreaming, outputText,
                   abortControllerRef, pendingOutputRef, lastUpdateRef, now, sess, started,
                   delivered>>
    /\ UNCHANGED <<streamVars, probeVars, mainVars>>

SpecErrors == ErrorsInit /\ [][ReportError]_vars

\* ------------------------------------------------------- the main process
MaxCalls == 2        \* calls of the ipcMain handlers that are followed

\* safeStorage.encryptString(text): the UTF-8 bytes of the text sealed under
\* the key of the operating system, whose name heads the buffer
EncryptString(key, text) == <<key>> \o Utf8Encode(text)

\* safeStorage.decryptString(buf): throws for a buffer that was not sealed
\* under the key at hand
DecryptString(key, buf) ==
    IF key # "none" /\ buf # <<>> /\ buf[1] = key
    THEN [ok |-> TRUE, text |-> Utf8Decode(<<>>, Tail(buf)).text]
    ELSE [ok |-> FALSE, text |-> <<>>]

\* buf.toString('base64'): the bytes in groups of three, the last group
\* filled up with "="
ToBase64(buf) ==
    [g \in 1..((Len(buf) + 2) \div 3) |->
        [j \in 1..3 |-> IF 3 * (g - 1) + j <= Len(buf) THEN buf[3 * (g - 1) + j] ELSE "="]]

\* Buffer.from(enc, 'base64')
FromBase64(enc) ==
    SelectSeq([i \in 1..(3 * Len(enc)) |-> enc[(i + 2) \div 3][((i - 1) % 3) + 1]],
              LAMBDA b : b # "=")

\* what the renderer can pass for a key: nothing, white space, a key, a key
\* with white space around it, a key with a character of two bytes
MainKeys == ApiKeys \cup UntrimmedKeys \cup { <<"k", "U+E9">>, <<"k", "e", "y">> }

\* the keys of the operating system: two users' keychains, or none
SafeKeys == {"os1", "os2", "none"}

\* ipcMain.handle('settings:getApiKey')
SettingsGetApiKey ==
    LET enc == store.apiKeyEnc
        dec == DecryptString(safeKey, FromBase64(enc))
    IN /\ mainNow < Epoch + MaxCalls
       /\ mainNow' = mainNow + 1
       /\ ipc' = Call("getApiKey", <<>>, "ok",
                      IF enc = <<>> THEN <<>> ELSE IF dec.ok THEN dec.text ELSE <<>>)
       /\ UNCHANGED <<store, safeKey, opened, savedKey, accepted>>
       /\ UNCHANGED <<streamVars, appVars, probeVars>>

\* the key stored as it came, without trim()
SettingsSetApiKeyUntrimmed(key) ==
    /\ mainNow < Epoch + MaxCalls
    /\ mainNow' = mainNow + 1
    /\ IF Trim(key) = <<>>
       THEN /\ store' = [store EXCEPT !.apiKeyEnc = <<>>]
            /\ savedKey' = NoSavedKey
            /\ ipc' = Call("setApiKey", key, "ok", <<>>)
       ELSE IF safeKey = "none"
            THEN /\ ipc' = Call("setApiKey", key, "threw", <<>>)
                 /\ UNCHANGED <<store, savedKey>>
            ELSE /\ store' = [store EXCEPT
                                 !.apiKeyEnc = ToBase64(EncryptString(safeKey, key))]
                 /\ savedKey' = [text |-> Trim(key), under |-> safeKey]
                 /\ ipc' = Call("setApiKey", key, "ok", <<>>)
    /\ UNCHANGED <<safeKey, opened, accepted>>
    /\ UNCHANGED <<streamVars, appVars, probeVars>>

\* ipcMain.handle('settings:setApiKey'): encryptString is called outside any
\* try and throws when the operating system has no key to seal under
SettingsSetApiKey(key) ==
    /\ mainNow < Epoch + MaxCalls
    /\ mainNow' = mainNow + 1
    /\ IF Trim(key) = <<>>
       THEN /\ store' = [store EXCEPT !.apiKeyEnc = <<>>]
            /\ savedKey' = NoSavedKey
            /\ ipc' = Call("setApiKey", key, "ok", <<>>)
       ELSE IF safeKey = "none"
            THEN /\ ipc' = Call("setApiKey", key, "threw", <<>>)
                 /\ UNCHANGED <<store, savedKey>>
            ELSE /\ store' = [store EXCEPT
                                 !.apiKeyEnc = ToBase64(EncryptString(safeKey, Trim(key)))]
                 /\ savedKey' = [text |-> Trim(key), under |-> safeKey]
                 /\ ipc' = Call("setApiKey", key, "ok", <<>>)
    /\ UNCHANGED <<safeKey, opened, accepted>>
    /\ UNCHANGED <<streamVars, appVars, probeVars>>

\* the keychain of the operating system is replaced, locked or unlocked
\* between two calls
SafeKeyChanges(key) ==
    /\ key # safeKey
    /\ safeKey' = key
    /\ UNCHANGED <<store, opened, ipc, mainNow, savedKey, accepted>>
    /\ UNCHANGED <<streamVars, appVars, probeVars>>

\* the first place from i on that holds none of the characters cs
RECURSIVE FirstNotIn(_, _, _)
FirstNotIn(s, i, cs) == IF i > Len(s) \/ s[i] \notin cs THEN i ELSE FirstNotIn(s, i + 1, cs)

HttpSchemes == { <<"h", "t", "t", "p">>, <<"h", "t", "t", "p", "s">> }

\* new URL(url) with no base: white space around the input is dropped, the
\* scheme (a letter, then letters, digits, "+", "-", ".", up to the first
\* ":") is lowered; an http(s) URL needs a host, with any number of slashes
\* before it, and gets the path "/" when it has none; a URL of another
\* scheme keeps what follows the scheme as it is.  ok is FALSE where the
\* constructor throws a TypeError.
ParseUrl(url) ==
    LET Alpha == { UpperCase[k] : k \in 1..26 } \cup { LowerCase[k] : k \in 1..26 }
        t == Trim(url)
        colon == FirstNotIn(t, 1, Alpha \cup Digits \cup {"+", "-", "."})
        scheme == ToLower(SubSeq(t, 1, colon - 1))
        from == FirstNotIn(t, colon + 1, {"/", "\\"})
        to == FirstNotIn(t, from, Alpha \cup Digits \cup {"-", "."})
        host == ToLower(SubSeq(t, from, to - 1))
        path == SubSeq(t, to, Len(t))
        failed == [ok |-> FALSE, protocol |-> <<>>, href |-> <<>>]
    IN IF colon = 1 \/ colon > Len(t) \/ t[colon] # ":" \/ t[1] \notin Alpha
       THEN failed
       ELSE IF scheme \in HttpSchemes
            THEN IF host = <<>> \/ (to <= Len(t) /\ t[to] \notin {"/", "\\", "?", "#"})
                 THEN failed
                 ELSE [ok |-> TRUE, protocol |-> scheme \o <<":">>,
                       href |-> scheme \o <<":", "/", "/">> \o host
                                \o (IF path = <<>> THEN <<"/">> ELSE path)]
            ELSE [ok |-> TRUE, protocol |-> scheme \o <<":">>,
                  href |-> scheme \o <<":">> \o SubSeq(t, colon + 1, Len(t))]

\* what the renderer can pass for a URL: '', ' ', 'a', '//a', 'http://',
\* 'https://a b', 'https://a', ' HTTP://A/a ', 'https:a', 'file:///a',
\* 'javascript:a', 'app:a', 'httpx://a'
Urls ==
    { <<>>, <<" ">>, <<"a">>, <<"/", "/", "a">>,
      <<"h", "t", "t", "p", ":", "/", "/">>,
      <<"h", "t", "t", "p", "s", ":", "/", "/", "a", " ", "b">>,
      <<"h", "t", "t", "p", "s", ":", "/", "/", "a">>,
      <<" ", "H", "T", "T", "P", ":", "/", "/", "A", "/", "a", " ">>,
      <<"h", "t", "t", "p", "s", ":", "a">>,
      <<"f", "i", "l", "e", ":", "/", "/", "/", "a">>,
      <<"j", "a", "v", "a", "s", "c", "r", "i", "p", "t", ":", "a">>,
      <<"a", "p", "p", ":", "a">>,
      <<"h", "t", "t", "p", "x", ":", "/", "/", "a">> }

\* the protocol is not looked at
ExternalOpenAnyProtocol(url, works) ==
    LET parsed == ParseUrl(url) IN
    /\ mainNow < Epoch + MaxCalls
    /\ mainNow' = mainNow + 1
    /\ IF Trim(url) = <<>>
       THEN /\ ipc' = Call("open", url, "threw", "URL is required")
            /\ opened' = opened
       ELSE IF ~parsed.ok
            THEN /\ ipc' = Call("open", url, "threw", "Invalid URL")
                 /\ opened' = opened
            ELSE IF works
                 THEN /\ ipc' = Call("open", url, "ok", <<>>)
                      /\ opened' = Append(opened, parsed.href)
                 ELSE /\ ipc' = Call("open", url, "threw", "openExternal")
                      /\ opened' = opened
    /\ UNCHANGED <<store, safeKey, savedKey, accepted>>
    /\ UNCHANGED <<streamVars, appVars, probeVars>>

\* ipcMain.handle('external:open'); works is whether shell.openExternal
\* resolves, which it does when the operating system opened the URL
ExternalOpen(url, works) ==
    LET parsed == ParseUrl(url) IN
    /\ mainNow < Epoch + MaxCalls
    /\ mainNow' = mainNow + 1
    /\ IF Trim(url) = <<>>
       THEN /\ ipc' = Call("open", url, "threw", "URL is required")
            /\ opened' = opened
       ELSE IF ~parsed.ok
            THEN /\ ipc' = Call("open", url, "threw", "Invalid URL")
                 /\ opened' = opened
            ELSE IF parsed.protocol \notin { s \o <<":">> : s \in HttpSchemes }
                 THEN /\ ipc' = Call("open", url, "threw", "Only HTTP(S) URLs are allowed")
                      /\ opened' = opened
                 ELSE IF works
                      THEN /\ ipc' = Call("open", url, "ok", <<>>)
                           /\ opened' = Append(opened, parsed.href)
                      ELSE /\ ipc' = Call("open", url, "threw", "openExternal")
                           /\ opened' = opened
    /\ UNCHANGED <<store, safeKey, savedKey, accepted>>
    /\ UNCHANGED <<streamVars, appVars, probeVars>>

EventsKept == 200    \* .slice(-200)

\* c, n times
Repeat(c, n) == [i \in 1..n |-> c]

\* /^[a-z0-9_]{1,max}$/.test(s)
Matches(s, max) ==
    /\ Len(s) \in 1..max
    /\ \A i \in 1..Len(s) : s[i] \in { LowerCase[k] : k \in 1..26 } \cup Digits \cup {"_"}

\* the names the renderer can pass: 'a', 64 times 'a', and '', 'A', 'a\n',
\* 65 times 'a', which the pattern does not match
EventNames ==
    { <<"a">>, Repeat("a", 64), <<>>, <<"A">>, <<"a", "\n">>, Repeat("a", 65) }

\* the metas the renderer can pass: none, and one whose entries are a good
\* one, one with a key in upper case, one with a key of 33 characters, one
\* whose value is no string, and one whose value has 121 characters
Entry(key, type, value) == [key |-> key, type |-> type, value |-> value]
EventMetas ==
    { <<>>,
      << Entry(<<"c">>, "string", <<"x">>), Entry(<<"C">>, "string", <<"x">>),
         Entry(Repeat("k", 33), "string", <<"x">>), Entry(<<"n">>, "number", <<"1">>),
         Entry(<<"l">>, "string", Repeat("x", 121)) >> }

\* String.prototype.slice(0, n)
SliceTo(s, n) == SubSeq(s, 1, IF Len(s) > n THEN n ELSE Len(s))

\* cleanMeta
CleanMeta(meta) ==
    LET kept == SelectSeq(meta, LAMBDA e : Matches(e.key, 32) /\ e.type = "string")
    IN [i \in 1..Len(kept) |->
           Entry(kept[i].key, "string", SliceTo(kept[i].value, 120))]

Event(name, ts, meta) == [name |-> name, ts |-> ts, meta |-> meta]

\* the first n kept, not the last
SliceLastKeepsFirst(s, n) == SubSeq(s, 1, IF Len(s) > n THEN n ELSE Len(s))

\* Array.prototype.slice(-n)
SliceLast(s, n) == SubSeq(s, (IF Len(s) > n THEN Len(s) - n ELSE 0) + 1, Len(s))

\* counters[name] = (counters[name] ?? 0) + 1
Count(counters, name) ==
    [n \in DOMAIN counters \cup {name} |->
        (IF n \in DOMAIN counters THEN counters[n] ELSE 0) + (IF n = name THEN 1 ELSE 0)]

\* ipcMain.handle('analytics:track')
AnalyticsTrack(name, meta) ==
    /\ mainNow < Epoch + MaxCalls
    /\ mainNow' = mainNow + 1
    /\ IF ~Matches(name, 64)
       THEN /\ ipc' = Call("track", name, "threw", "Invalid event name")
            /\ UNCHANGED <<store, accepted>>
       ELSE LET nextEvent == Event(name, mainNow, CleanMeta(meta)) IN
            /\ store' = [store EXCEPT
                            !.analyticsEvents = SliceLast(Append(@, nextEvent), EventsKept),
                            !.analyticsCounters = Count(@, name)]
            /\ accepted' = Append(accepted, nextEvent)
            /\ ipc' = Call("track", name, "ok", <<>>)
    /\ UNCHANGED <<safeKey, opened, savedKey>>
    /\ UNCHANGED <<streamVars, appVars, probeVars>>

\* The store a run of the main process finds: that of a first run, or one
\* that earlier runs left after n accepted calls of analytics:track.
Earlier(n) == [i \in 1..n |-> Event(<<"a">>, i, <<>>)]

MainInit ==
    /\ StreamIdle /\ AppInit /\ ProbeIdle
    /\ \E n \in {0, EventsKept - 1, EventsKept} :
          /\ accepted = Earlier(n)
          /\ store = [EmptyStore EXCEPT
                         !.analyticsEvents = SliceLast(Earlier(n), EventsKept),
                         !.analyticsCounters = IF n = 0 THEN <<>> ELSE (<<"a">> :> n)]
    /\ safeKey = "os1"
    /\ opened = <<>>
    /\ ipc = Call("none", <<>>, "ok", <<>>)
    /\ mainNow = Epoch
    /\ savedKey = NoSavedKey

MainNext ==
    \/ SettingsGetApiKey
    \/ \E key \in MainKeys : SettingsSetApiKey(key)
    \/ \E key \in SafeKeys : SafeKeyChanges(key)
    \/ \E url \in Urls, works \in BOOLEAN : ExternalOpen(url, works)
    \/ \E name \in EventNames, meta \in EventMetas : AnalyticsTrack(name, meta)

SpecMain == MainInit /\ [][MainNext]_vars

\* ----------------------------------------------------------------- claims
\* the body is N lines that each carry a text delta, the last line or the
\* line after them being the terminator
ValidFramed ==
    /\ frames # <<>>
    /\ frames[Len(frames)].term
    /\ \A i \in 1..Len(frames) :
          /\ frames[i].kind \in {"delta", "done"}
          /\ frames[i].term => i = Len(frames)

\* C1: for a body of N valid framed lines and a terminator, however the bytes
\* are cut into chunks, the generator has at every moment yielded exactly the
\* text deltas of the lines that have wholly arrived, in order: nothing for a
\* partial line, and all N once the body is exhausted.
ChunkingInvariance ==
    ValidFramed =>
        /\ genState # "threw"
        /\ yielded = FragsOf(SubSeq(frames, 1, LinesWithin(frames, pos)))
        /\ genState = "returned" => yielded = FragsOf(frames)

\* C1 witness: Scenario A read to its end with a chunk boundary inside a line
ChunkingWitness ==
    /\ ValidFramed
    /\ genState = "returned"
    /\ splitLine
    /\ family = "ollama"
    /\ yielded = << <<"H", "e", "l", "l", "o">>, <<"!">> >>

\* a line that is no JSON stands between two lines that carry a text delta
BadBetweenValid ==
    \E i \in 2..(Len(frames) - 1) :
        /\ frames[i].kind = "bad"
        /\ frames[i - 1].kind = "delta"
        /\ frames[i + 1].kind = "delta"

\* C2: a body with a line that fails to parse as JSON between two valid lines
\* raises no error, and once it is read to its end the generator has yielded
\* the text deltas of the valid lines, in order, and nothing for the bad line:
\* what it yields for the same body without that line.
MalformedLineTolerance ==
    BadBetweenValid =>
        /\ genState # "threw"
        /\ genState = "returned" =>
              yielded = FragsOf(SelectSeq(frames, LAMBDA f : f.kind # "bad"))
        /\ Len(yielded) <= Len(SelectSeq(SubSeq(frames, 1, LinesWithin(frames, pos)),
                                         LAMBDA f : f.kind = "delta"))

\* C2 witness: delta, bad line, delta read to the end
MalformedLineWitness ==
    /\ BadBetweenValid
    /\ genState = "returned"
    /\ Len(yielded) = 2

\* the message an error reply carries for the user: the body's, else the
\* status text
ReplyMessage == IF reply.body.message # <<>> THEN reply.body.message ELSE reply.statusText

\* C9: a reply whose status is not a success makes the generator throw before
\* it reads any byte of the body or yields anything.  Z.AI: 401 gives the
\* invalid-API-key error whatever the body says; otherwise 429, or a message
\* that speaks of quota, balance or expiry, gives the message followed by the
\* billing links; otherwise the backend's message, or the status fallback when
\* there is none.  Ollama: 404 gives model-not-found, every other status the
\* status fallback.
HttpErrorMapping ==
    (status # 0 /\ ~Ok(status)) =>
        /\ genState = "threw"
        /\ yielded = <<>>
        /\ pos = 0
        /\ genError.name = "Error"
        /\ family = "zai" =>
              /\ status = 401 => genError.text = "InvalidApiKey"
              /\ (status # 401 /\ (status = 429 \/ reply.body.quota)) =>
                    /\ genError.text = "QuotaWithLinks"
                    /\ genError.msg = ReplyMessage
              /\ (status \notin {401, 429} /\ ~reply.body.quota) =>
                    IF ReplyMessage # <<>>
                    THEN genError.text = "Message" /\ genError.msg = ReplyMessage
                    ELSE genError.text = "StatusFallback" /\ genError.status = status
        /\ family = "ollama" =>
              IF status = 404 THEN genError.text = "ModelNotFound"
              ELSE genError.text = "OllamaReturned" /\ genError.status = status

\* C9 witness: Z.AI answers 401 with a body that speaks of insufficient balance
HttpErrorWitness ==
    /\ family = "zai"
    /\ status = 401
    /\ reply.body.quota
    /\ genState = "threw"
    /\ genError.text = "InvalidApiKey"

\* C3: once the stored session has been cancelled while it was streaming, the
\* flags are down and the output text is the texts that session had been
\* given, joined, and stays so.
CancelMidStream ==
    (abortControllerRef # 0 /\ sess[abortControllerRef].end = "aborted") =>
        /\ ~isStreaming
        /\ ~isGenerating
        /\ outputText = Flat(delivered[abortControllerRef])

\* C4: a single session that failed with an error that is no abort shows the
\* error, and the output text is all the texts it had been given, joined.
FailurePreservesOutput ==
    (started = 1 /\ sess[1].end = "failed" /\ ~sess[1].aborted) =>
        /\ error # NoBanner
        /\ outputText = Flat(delivered[1])

\* C5: once the latest session has completed, the output text is every text
\* its generator yielded, joined in order, whatever the throttle held back.
CompletionOutput ==
    (abortControllerRef # 0 /\ sess[abortControllerRef].end = "completed") =>
        outputText = Flat(delivered[abortControllerRef])

\* C6: at most one session has a request in flight, and it is the one the
\* stored controller belongs to.
SingleLiveSession ==
    /\ Cardinality({s \in 1..MaxSessions : Live(s)}) <= 1
    /\ \A s \in 1..MaxSessions : Live(s) => abortControllerRef = s

\* C7: a cancel of a session that was cancelled before, or that completed,
\* changes neither the output text nor the error, and no session is given a
\* text by it.
IdempotentCancel ==
    [][(/\ op' = "stop"
        /\ abortControllerRef # 0
        /\ \/ sess[abortControllerRef].aborted
           \/ sess[abortControllerRef].end = "completed")
       => (outputText' = outputText /\ error' = error /\ delivered' = delivered)]_vars

\* the request the guard is for: no text but white space, or no model
BlankRequest == Trim(inputText) = <<>> \/ model = ""

CancelNeverFails == [][(op' = "stop" /\ error = NoBanner) => error' = NoBanner]_vars

\* some line of the body carries no text delta: the sentinel, a blank line,
\* a line without the data prefix, or JSON without a text
NoDeltaLine == \E i \in 1..Len(frames) : frames[i].kind \in {"done", "noise", "empty"}

\* C14: a line that carries no text delta makes the generator yield nothing
\* and raise nothing: with such lines in the body, what has been yielded is
\* at every moment exactly the text deltas of the other lines that have
\* arrived, and Scenario B read to its end has yielded "Hi" alone.
NoDeltaNoFragment ==
    /\ NoDeltaLine =>
          /\ genState # "threw"
          /\ yielded = FragsOf(SubSeq(frames, 1, LinesWithin(frames, pos)))
          /\ \A i \in 1..Len(yielded) : yielded[i] # <<>>
    /\ (family = "zai" /\ frames = <<ZaiHi, Blank, ZaiDone>> /\ genState = "returned")
          => yielded = << <<"H", "i">> >>

\* C14 witness: Scenario B read to its end in chunks that cut a line
NoDeltaWitness ==
    /\ family = "zai"
    /\ frames = <<ZaiHi, Blank, ZaiDone>>
    /\ genState = "returned"
    /\ yielded = << <<"H", "i">> >>
    /\ splitLine

\* C17: once the sentinel (the line 'data: [DONE]', a line with done: true)
\* has been read, the generator is done: it returns without an error and
\* yields nothing for any line after the sentinel.
SentinelEndsStream ==
    \A i \in 1..Len(frames) :
        (frames[i].term /\ i <= LinesWithin(frames, pos)) =>
            /\ genState # "threw"
            /\ yielded = FragsOf(SubSeq(frames, 1, i))

\* the body ends inside a line: no line feed after the last line
Unterminated == wire # <<>> /\ wire[Len(wire)] # "\n"

\* C24: when the body is exhausted, what is left in buffer (a last line
\* without its line feed) is never parsed: such a line yields nothing even
\* though it is a valid frame, and the generator returns with it in buffer.
ResidueDiscarded ==
    Unterminated =>
        /\ genState # "threw"
        /\ Len(yielded) < Len(frames)
        /\ genState = "returned" =>
              /\ yielded = FragsOf(SubSeq(frames, 1, Len(frames) - 1))
              /\ buffer = frames[Len(frames)].text

\* C24 witness: two valid Z.AI lines, the second without its line feed, read
\* to the end
ResidueWitness ==
    /\ Unterminated
    /\ family = "zai"
    /\ frames = <<ZaiHi, ZaiAccent>>
    /\ genState = "returned"
    /\ yielded = << <<"H", "i">> >>

\* ----------------------------------------------------- claims on the probe
\* the call p settles in this step
Settling(p) == probes[p].pc = "fetch" /\ probes'[p].pc = "settled"

\* C11 as stated: a probe gives connected for a 2xx response and for nothing
\* else; 400, 429, 5xx, 401, 403 and a network exception give disconnected.
ProbeConnectedOnlyOn2xx ==
    [][\A p \in 1..MaxProbes :
          Settling(p) =>
              (zaiConnected' = "true"
                  <=> (probes'[p].kind = "response" /\ probes'[p].status \in 200..299))]_vars

\* C11: a probe gives connected for a 2xx response and for a 400 or a 429
\* one; 401, 403, every other status and a network exception give
\* disconnected.
ProbeInterpretation ==
    [][\A p \in 1..MaxProbes :
          Settling(p) =>
              /\ zaiConnected' \in {"true", "false"}
              /\ zaiConnected' = "true"
                    <=> /\ probes'[p].kind = "response"
                        /\ \/ probes'[p].status \in 200..299
                           \/ probes'[p].status \in {400, 429}]_vars

ProbeInterpretationWitness ==
    /\ \E p \in 1..MaxProbes : probes[p].status = 429 /\ probes[p].result = "true"
    /\ \E p \in 1..MaxProbes : probes[p].status = 403 /\ probes[p].result = "false"
    /\ \E p \in 1..MaxProbes : probes[p].kind = "network" /\ probes[p].result = "false"

\* C12: a manual refresh triggered while a probe is in flight does not start
\* a second, concurrent probe.
RefreshNeverOverlaps ==
    [][(op' = "refresh" /\ InFlight # {}) => issued' = issued]_vars

\* C19: whatever triggers them (startup, a change of the stored key, manual
\* refresh), at most one connectivity probe is in flight at any time.
SingleProbeInFlight == Cardinality(InFlight) <= 1

\* C26: once every probe has finished, the connectivity state is what the
\* probe started last gave (disconnected when the key is blank and no probe
\* was started for it), whatever the order in which the answers came.
LatestProbeWins ==
    InFlight = {} =>
        IF Trim(apiKey) = <<>> THEN zaiConnected = "false"
        ELSE issued > 0 => zaiConnected = probes[issued].result

\* ------------------------------------------------ claims on the request
\* C13: a started session ends in exactly one of completed, aborted and
\* failed: the one the user cancels while it is live ends as aborted, not as
\* failed, and an outcome once reached is never replaced by a later callback.
SingleOutcome ==
    [][\A s \in 1..MaxSessions :
          /\ sess'[s].end \in {"none", "completed", "aborted", "failed"}
          /\ sess[s].end # "none" => sess'[s].end = sess[s].end
          /\ (op' = "stop" /\ abortControllerRef = s /\ Live(s))
                => sess'[s].end = "aborted"]_vars

\* C18: while the request in hand still waits for its response (no byte has
\* arrived), the application is generating but not streaming.
StreamingAfterFirstByte ==
    \A s \in 1..MaxSessions :
        (abortControllerRef = s /\ sess[s].pc = "fetch") => (isGenerating /\ ~isStreaming)

\* C20: whatever fetch comes to (any status, a network exception, the timer's
\* abort), checkConnection gives a boolean and raises nothing, a timeout gives
\* what a network exception gives (disconnected), the probe's timer is gone,
\* and zaiConnected is unknown only while some probe is still in flight.
ProbeNeverFatal ==
    /\ [](zaiConnected = "null" => InFlight # {})
    /\ [][\A p \in 1..MaxProbes :
             Settling(p) =>
                 /\ probes'[p].result \in {"true", "false"}
                 /\ probes'[p].kind \in {"network", "timeout"}
                       => (probes'[p].result = "false" /\ zaiConnected' = "false")
                 /\ probes'[p].timer = 0
                 /\ zaiConnected' # "null"]_vars

\* C20 witness: one probe timed out, another met a network exception, and a
\* third was answered 500
ProbeNeverFatalWitness ==
    /\ \E p \in 1..MaxProbes : probes[p].kind = "timeout" /\ probes[p].result = "false"
    /\ \E p \in 1..MaxProbes : probes[p].kind = "network" /\ probes[p].result = "false"
    /\ \E p \in 1..MaxProbes : probes[p].status = 500 /\ probes[p].result = "false"
    /\ InFlight = {}
    /\ zaiConnected = "false"

\* C15: a probe that fails schedules the next probe: when it settles as
\* failed with a key stored, a timer is left pending that belongs to no
\* request in flight, the delay of the retry (the delays grow along a fixed
\* sequence up to its last value and start over after a success or a
\* manual refresh).
FailureSchedulesRetry ==
    [][\A p \in 1..MaxProbes :
          (Settling(p) /\ probes'[p].result = "false" /\ Trim(apiKey) # <<>>)
              => \E q \in 1..MaxProbes : probes'[q].timer > 0 /\ probes'[q].pc # "fetch"]_vars

\* a probe has failed, the key is still stored, and nothing is in flight
Disconnected ==
    /\ zaiConnected = "false"
    /\ Trim(apiKey) # <<>>
    /\ InFlight = {}
    /\ \E p \in 1..MaxProbes : probes[p].pc = "settled" /\ probes[p].result = "false"

\* C16: after a failed probe has left the state disconnected, a further
\* probe is eventually issued with no action of the user (unless the key is
\* cleared first).
RetriesForever ==
    (Disconnected /\ issued < MaxProbes) ~> (InFlight # {} \/ Trim(apiKey) = <<>>)

\* ------------------------------------- claims on the request and the probe
\* a step of checkApiKey: the effect after a key change, the refresh button,
\* or the answer of a probe
ProbeStep == op' \in {"key", "refresh"} \/ probes' # probes

\* C21: a probe can start and finish while a request is live; its steps
\* change the connectivity state alone and leave outputText, isStreaming,
\* isGenerating and error as they are, and no step of a request changes the
\* connectivity state.
ProbeIndependent ==
    [][/\ ProbeStep => UNCHANGED <<outputText, isStreaming, isGenerating, error, sess,
                                   pendingOutputRef>>
       /\ ~ProbeStep => UNCHANGED <<zaiConnected, probes>>]_vars

\* C21 witness: while a request is streaming text, a refresh has just sent a
\* probe after an earlier probe was answered
ProbeIndependentWitness ==
    /\ \E s \in 1..MaxSessions : sess[s].pc = "read" /\ sess[s].pos > 0
    /\ isStreaming
    /\ outputText # <<>>
    /\ op = "refresh"
    /\ InFlight # {}
    /\ \E p \in 1..MaxProbes : probes[p].pc = "settled"

\* C22: the step that ends a session, whatever its outcome, leaves
\* isGenerating and isStreaming false, which is what canGenerate and the
\* Generate button ask for besides input and a model; that step starts no
\* request, and a session that has ended never runs again.
EndIsNonBlocking ==
    [][\A s \in 1..MaxSessions :
          /\ (sess[s].end = "none" /\ sess'[s].end # "none") =>
                /\ sess'[s].end \in {"completed", "aborted", "failed"}
                /\ ~isGenerating' /\ ~isStreaming'
                /\ started' = started
                /\ \A r \in 1..MaxSessions : sess'[r].pc = "fetch" => sess[r].pc = "fetch"
          /\ sess[s].pc = "ended" =>
                (sess'[s] = sess[s] \/ sess'[s] = [sess[s] EXCEPT !.aborted = TRUE])]_vars

\* C22 witness: the first request failed and Generate has started a second
EndIsNonBlockingWitness ==
    /\ sess[1].end = "failed"
    /\ sess[2].pc = "fetch"
    /\ error = NoBanner
    /\ isGenerating

\* C25: isGenerating is true whenever a request is in flight, from the step
\* that issues it to the step that applies its outcome; the end of one
\* session does not clear it while another is still live.
BusyWhileInFlight == (\E s \in 1..MaxSessions : Live(s)) => isGenerating

\* a request or a probe that this step puts on the network carries the
\* trimmed key, which is not empty
BearerIsTrimmedKey ==
    /\ \A s \in 1..MaxSessions :
          (sess[s].pc = "none" /\ sess'[s].pc = "fetch")
             => (sess'[s].key = Trim(apiKey) /\ sess'[s].key # <<>>)
    /\ \A p \in 1..MaxProbes :
          (probes[p].pc = "none" /\ probes'[p].pc = "fetch")
             => (probes'[p].key = Trim(apiKey') /\ probes'[p].key # <<>>)

\* a probe started (by a change of the key or by the refresh button) with a
\* key that is empty after trim issues nothing and writes disconnected
BlankProbeDisconnects ==
    (op' \in {"key", "refresh"} /\ Trim(apiKey') = <<>>)
       => (zaiConnected' = "false" /\ issued' = issued /\ probes' = probes)

\* Generate with a key that is empty after trim issues nothing and leaves
\* the three fields alone
BlankGenerateIssuesNothing ==
    (op' = "generate" /\ Trim(apiKey) = <<>>)
       => /\ started' = started /\ sess' = sess
          /\ UNCHANGED <<isGenerating, isStreaming, outputText>>

\* C27 (as stated): no request without a credential: with a blank or
\* whitespace-only API key no request is issued, every Generate sets the
\* configure-your-API-key error and leaves isGenerating, isStreaming and
\* outputText unchanged, a probe sets the connectivity state to disconnected,
\* and every issued request carries the trimmed key.
NoKeyAlwaysReported ==
    [][ /\ BearerIsTrimmedKey
        /\ BlankProbeDisconnects
        /\ BlankGenerateIssuesNothing
        /\ (op' = "generate" /\ Trim(apiKey) = <<>>)
              => error' = Banner("ConfigureKey", <<>>, 0) ]_vars

\* C27 (amended): no request without a credential: with a blank or
\* whitespace-only API key no request is issued; Generate leaves isGenerating,
\* isStreaming and outputText unchanged and, unless the input is empty after
\* trimming (then it is ignored and the error stays as it was), sets the
\* configure-your-API-key error; a probe sets the connectivity state to
\* disconnected; every issued request carries the trimmed key.
NoRequestWithoutKey ==
    [][ /\ BearerIsTrimmedKey
        /\ BlankProbeDisconnects
        /\ BlankGenerateIssuesNothing
        /\ (op' = "generate" /\ Trim(apiKey) = <<>>)
              => IF Rejects(inputText, model)
                 THEN error' = error
                 ELSE error' = Banner("ConfigureKey", <<>>, 0) ]_vars

\* Generate was pressed over a key of white space and the banner is up with
\* nothing started, the probe of that key wrote disconnected, and a probe of
\* a padded key went out with the trimmed key.
NoRequestWithoutKeyWitness ==
    /\ op = "generate" /\ apiKey = <<" ">>
    /\ error = Banner("ConfigureKey", <<>>, 0)
    /\ started = 0 /\ ~isGenerating
    /\ zaiConnected = "false"
    /\ \E p \in 1..MaxProbes : probes[p].key = <<"k">> /\ probes[p].pc # "none"

\* ------------------------------------------------ claims on getErrorMessage
\* getErrorMessage has been applied to what was thrown
Reported == genState = "threw" /\ error # NoBanner

\* the cannot-connect message of the backend in use
CannotConnectHere ==
    Banner(IF family = "zai" THEN "CannotConnect" ELSE "CannotConnectOllama", <<>>, 0)

\* C23: an abort gives 'Generation stopped.', a transport failure
\* (fetch rejected, the connection lost while reading) gives the
\* cannot-connect message of the backend, and every other exception that is
\* no HTTP error and carries no message of a server gives the generic
\* fallback message.
ErrorKindMessages ==
    (Reported /\ status = 0 /\ genError.text # "Message") =>
        IF genError.name = "AbortError" THEN error = Banner("Stopped", <<>>, 0)
        ELSE IF genError.text \in {"FailedToFetch", "NetworkError"} THEN error = CannotConnectHere
        ELSE error = Banner("Unexpected", <<>>, 0)

\* --------------------------------------------- claims on the main process
\* what settings:getApiKey is to give: the key put away last, when there is
\* one and the operating system still holds the key it was sealed under
KeyToRead == IF savedKey.under = safeKey THEN savedKey.text ELSE <<>>

Http == <<"h", "t", "t", "p", ":", "/", "/">>
Https == <<"h", "t", "t", "p", "s", ":", "/", "/">>

\* C29: external:open opens a URL only if it is non-blank and its parsed
\* protocol is http: or https:, and what it opens is the parsed URL; for
\* every other input (blank, unparsable, file:, javascript:, custom schemes)
\* the call fails with an error; a call that fails opens nothing.
OpenOnlyHttp ==
    [][ (mainNow' # mainNow /\ ipc'.channel = "open") =>
          LET parsed == ParseUrl(ipc'.arg)
              allowed == /\ Trim(ipc'.arg) # <<>>
                         /\ parsed.ok
                         /\ parsed.protocol \in { <<"h", "t", "t", "p", ":">>,
                                                  <<"h", "t", "t", "p", "s", ":">> }
          IN /\ opened' # opened
                   => (allowed /\ ipc'.result = "ok" /\ opened' = Append(opened, parsed.href))
             /\ ~allowed => ipc'.result = "threw"
             /\ ipc'.result = "threw" => opened' = opened
             /\ \A i \in 1..Len(opened') :
                   StartsWith(opened'[i], Http) \/ StartsWith(opened'[i], Https) ]_vars

\* ' HTTP://A/a ' was opened as http://a/a, and then javascript:a was refused
OpenOnlyHttpWitness ==
    /\ opened = << Http \o <<"a", "/", "a">> >>
    /\ ipc = Call("open", <<"j", "a", "v", "a", "s", "c", "r", "i", "p", "t", ":", "a">>,
                  "threw", "Only HTTP(S) URLs are allowed")

\* C30: the analytics event log is bounded: after any sequence of
\* analytics:track calls the stored list holds at most 200 events and is the
\* most recent (up to 200) accepted events in call order; a call with an
\* invalid name is rejected and leaves the list and the counters unchanged.
EventLogBounded ==
    [][ /\ Len(store'.analyticsEvents) <= 200
        /\ Len(store'.analyticsEvents) = IF Len(accepted') < 200 THEN Len(accepted') ELSE 200
        /\ store'.analyticsEvents
              = SubSeq(accepted', Len(accepted') - Len(store'.analyticsEvents) + 1,
                       Len(accepted'))
        /\ (mainNow' # mainNow /\ ipc'.channel = "track" /\ ~Matches(ipc'.arg, 64))
              => /\ ipc'.result = "threw"
                 /\ store'.analyticsEvents = store.analyticsEvents
                 /\ store'.analyticsCounters = store.analyticsCounters
        /\ (mainNow' # mainNow /\ ipc'.channel = "track" /\ Matches(ipc'.arg, 64))
              => /\ ipc'.result = "ok"
                 /\ accepted' # accepted
                 /\ store'.analyticsEvents[Len(store'.analyticsEvents)].name = ipc'.arg ]_vars

\* the list was full, two more events were taken and the two oldest are gone
EventLogBoundedWitness ==
    /\ Len(accepted) = 202
    /\ Len(store.analyticsEvents) = 200
    /\ store.analyticsEvents[1] = accepted[3]
    /\ store.analyticsEvents[200].name = Repeat("a", 64)
    /\ store.analyticsEvents[200].meta # <<>>

====
